---------------------------- MODULE Spec2Model ----------------------------
(***************************************************************************)
(* A model of the intervention-tracking system: the RDF graph store, the   *)
(* entity builders of ontology_core.py, the barrier-assessment engine of   *)
(* barrier_assessment.py and the load-mutate-save request handlers of      *)
(* app.py.                                                                 *)
(*                                                                         *)
(* URIs and literal lexical forms are strings, built by concatenation the  *)
(* way the code's f-strings build them.  A graph is a set of triples       *)
(* <<subject, predicate, object>> of terms; rdflib's Graph.add is set      *)
(* union.                                                                  *)
(***************************************************************************)
EXTENDS Integers, Sequences, FiniteSets, TLC

VARIABLES
    graph,      \* the in-memory store a sequence of builder calls works on
    pre,        \* the store as it was before the last builder call
    call,       \* the last builder call: its arguments and the triples it added
    ncalls,     \* number of builder calls made so far
    artifact,   \* the durable artifact, data/demo_graph.ttl
    handler,    \* per request handler: where it is in its load-mutate-save cycle
    done,       \* per request handler: a record of the last cycle it completed
    issued,     \* the participant ids answered by completed creations, in order
    now,        \* the wall clock, in ticks
    ncycles     \* number of load-mutate-save cycles started so far

engineVars == <<graph, pre, call, ncalls>>

cycleVars == <<artifact, handler, done, issued, now, ncycles>>

vars == <<graph, pre, call, ncalls, artifact, handler, done, issued, now,
          ncycles>>

---------------------------------------------------------------------------
(* Bounds of the model.                                                    *)

\* Number of builder calls in one run of the engine.
MaxCalls == 3

\* Number of recordings in one run over the whole score range.
MaxScoreCalls == 2

\* Number of builder calls behind a store that is saved and loaded again.
MaxBuilds == 3

\* Number of load-mutate-save cycles started in one run of the handlers.
MaxCycles == 2

\* Number of participant identifiers derived in one run.
MaxDerivations == 2

---------------------------------------------------------------------------
(* Strings.                                                                *)

\* str.split('/')[-1]: the part after the last slash.
RECURSIVE SplitLastFrom(_, _)
SplitLastFrom(s, i) ==
    IF i = 0 THEN s
    ELSE IF SubSeq(s, i, i) = "/" THEN SubSeq(s, i + 1, Len(s))
    ELSE SplitLastFrom(s, i - 1)

SplitLast(s) == SplitLastFrom(s, Len(s))

Digits == <<"0", "1", "2", "3", "4", "5", "6", "7", "8", "9">>

DigitValue(c) == (CHOOSE d \in 1..10 : Digits[d] = c) - 1

IsDigit(c) == \E d \in 1..10 : Digits[d] = c

RECURSIVE ParseNat(_, _)
ParseNat(s, acc) ==
    IF s = "" THEN acc
    ELSE ParseNat(SubSeq(s, 2, Len(s)), 10 * acc + DigitValue(SubSeq(s, 1, 1)))

\* Python int(str) on a decimal lexical form.
ParseInt(s) ==
    IF SubSeq(s, 1, 1) = "-" THEN 0 - ParseNat(SubSeq(s, 2, Len(s)), 0)
    ELSE ParseNat(s, 0)

---------------------------------------------------------------------------
(* rdflib terms and namespaces.                                            *)

BCIO == "http://purl.obolibrary.org/obo/BCIO_"
BFO == "http://purl.obolibrary.org/obo/BFO_"
PATO == "http://purl.obolibrary.org/obo/PATO_"
IAO == "http://purl.obolibrary.org/obo/IAO_"
INTERVENTION == "http://interventions.org/"
BARRIER == "http://interventions.org/barrier/"
RDF == "http://www.w3.org/1999/02/22-rdf-syntax-ns#"
RDFS == "http://www.w3.org/2000/01/rdf-schema#"
XSD == "http://www.w3.org/2001/XMLSchema#"

URIRef(s) == [k |-> "uri", v |-> s, dt |-> "", lang |-> ""]

\* Literal(value, datatype=...) / Literal(value, lang=...): the lexical form.
Literal(lex, datatype, language) ==
    [k |-> "lit", v |-> lex, dt |-> datatype, lang |-> language]

\* Literal(n, datatype=XSD.integer) of a Python int: lexical form str(n).
IntegerLiteral(n) == Literal(ToString(n), XSD \o "integer", "")

RDF_type == URIRef(RDF \o "type")
RDFS_label == URIRef(RDFS \o "label")

has_severity_score == URIRef(BCIO \o "has_severity_score")
has_change_from_baseline == URIRef(BCIO \o "has_change_from_baseline")
is_reassessment_of == URIRef(BCIO \o "is_reassessment_of")
assessed_at_timepoint == URIRef(BCIO \o "assessed_at_timepoint")
concerns_domain == URIRef(BCIO \o "concerns_domain")

Barrier_Reduction == URIRef(BARRIER \o "Barrier_Reduction")
Barrier_Increase == URIRef(BARRIER \o "Barrier_Increase")
Barrier_Stable == URIRef(BARRIER \o "Barrier_Stable")

OutcomeClasses == {Barrier_Reduction, Barrier_Increase, Barrier_Stable}

---------------------------------------------------------------------------
(* The fixed vocabularies of BarrierAssessment.                            *)

BARRIER_TYPES ==
    [physical_capability |->
        [class |-> "Physical_Capability_Barrier",
         label |-> "Physical Capability Barrier",
         mechanism |-> "BCIO_0000532"],
     psychological_capability |->
        [class |-> "Psychological_Capability_Barrier",
         label |-> "Psychological Capability Barrier",
         mechanism |-> "BCIO_0000532"],
     physical_opportunity |->
        [class |-> "Physical_Opportunity_Barrier",
         label |-> "Physical Opportunity Barrier",
         mechanism |-> "BCIO_0000536"],
     social_opportunity |->
        [class |-> "Social_Opportunity_Barrier",
         label |-> "Social Opportunity Barrier",
         mechanism |-> "BCIO_0000537"],
     reflective_motivation |->
        [class |-> "Reflective_Motivation_Barrier",
         label |-> "Reflective Motivation Barrier",
         mechanism |-> "BCIO_0000533"],
     automatic_motivation |->
        [class |-> "Automatic_Motivation_Barrier",
         label |-> "Automatic Motivation Barrier",
         mechanism |-> "BCIO_0000534"]]

TIMEPOINTS ==
    [baseline |-> "timepoint:Baseline",
     day_30 |-> "timepoint:Day_30",
     day_90 |-> "timepoint:Day_90",
     day_180 |-> "timepoint:Day_180"]

DOMAINS ==
    [employment |-> "Employment_Domain",
     accommodation |-> "Accommodation_Domain",
     substance_use |-> "Substance_Use_Domain",
     relationships |-> "Relationships_Domain",
     attitudes |-> "Attitudes_Domain",
     leisure |-> "Leisure_Domain"]

---------------------------------------------------------------------------
(* The barrier-assessment engine (BarrierAssessmentGraph).  Each builder   *)
(* yields the URI it returns and the triples it passes to graph.add.       *)

\* What the barrier URI would be without its barrier type: the instances of
\* one batch would share a node.
BarrierInstanceUriNoType(participant_uri, domain, barrier_type, timepoint) ==
    URIRef(BARRIER \o SplitLast(participant_uri.v) \o "/" \o domain \o "/"
           \o timepoint)

\* The URI _create_barrier_instance gives a barrier instance.
BarrierInstanceUri(participant_uri, domain, barrier_type, timepoint) ==
    URIRef(BARRIER \o SplitLast(participant_uri.v) \o "/" \o domain \o "/"
           \o barrier_type \o "/" \o timepoint)

_create_barrier_instance(assessment_uri, participant_uri, barrier_type, severity_score, domain, timepoint, assessment_date) ==
    LET barrier_info == BARRIER_TYPES[barrier_type]
        barrier_uri ==
            BarrierInstanceUri(participant_uri, domain, barrier_type, timepoint)
        domain_uri == URIRef(INTERVENTION \o "domain/" \o DOMAINS[domain])
        timepoint_uri == URIRef(INTERVENTION \o TIMEPOINTS[timepoint])
    IN  [uri |-> barrier_uri,
         adds |->
           {<<barrier_uri, RDF_type, URIRef(BARRIER \o barrier_info.class)>>,
            <<barrier_uri, RDF_type, URIRef(BFO \o "0000020")>>,
            <<barrier_uri, RDFS_label, Literal(barrier_info.label, "", "en")>>,
            <<barrier_uri, URIRef(BFO \o "0000052"), participant_uri>>,
            <<barrier_uri, concerns_domain, domain_uri>>,
            <<barrier_uri, assessed_at_timepoint, timepoint_uri>>,
            <<barrier_uri, has_severity_score, IntegerLiteral(severity_score)>>,
            <<barrier_uri, URIRef(BCIO \o "has_assessment_date"),
              Literal(assessment_date, XSD \o "dateTime", "")>>,
            <<barrier_uri, URIRef(BCIO \o "addressable_by_mechanism"),
              URIRef(BCIO \o barrier_info.mechanism)>>}]

\* Variant: an empty batch is taken as a score of 0 on every barrier type.
AddBarrierAssessmentDefaulting(participant_id, domain, timepoint, barrier_scores, assessment_date) ==
    LET assessment_uri ==
            URIRef(INTERVENTION \o "assessment/" \o participant_id \o "/"
                   \o domain \o "/" \o timepoint \o "/" \o assessment_date)
        participant_uri ==
            URIRef(INTERVENTION \o "participant/" \o participant_id)
        scores ==
            IF DOMAIN barrier_scores = {}
            THEN [bt \in DOMAIN BARRIER_TYPES |-> 0]
            ELSE barrier_scores
        instance(bt) ==
            _create_barrier_instance(assessment_uri, participant_uri, bt,
                                     scores[bt], domain, timepoint,
                                     assessment_date)
    IN  [uri |-> assessment_uri,
         adds |->
           {<<assessment_uri, RDF_type, URIRef(BCIO \o "0000001")>>,
            <<assessment_uri, RDFS_label,
              Literal("Barrier Assessment - " \o domain, "", "en")>>,
            <<assessment_uri, URIRef(BCIO \o "has_specified_input"),
              participant_uri>>,
            <<assessment_uri, URIRef(BCIO \o "has_temporal_value"),
              Literal(assessment_date, XSD \o "dateTime", "")>>,
            <<assessment_uri, assessed_at_timepoint,
              URIRef(INTERVENTION \o TIMEPOINTS[timepoint])>>,
            <<assessment_uri, concerns_domain,
              URIRef(INTERVENTION \o "domain/" \o DOMAINS[domain])>>}
           \cup UNION {instance(bt).adds : bt \in DOMAIN scores}
           \cup {<<assessment_uri, URIRef(BFO \o "0000051"), instance(bt).uri>> :
                    bt \in DOMAIN scores}]

add_barrier_assessment(participant_id, domain, timepoint, barrier_scores, assessment_date) ==
    LET assessment_uri ==
            URIRef(INTERVENTION \o "assessment/" \o participant_id \o "/"
                   \o domain \o "/" \o timepoint \o "/" \o assessment_date)
        participant_uri ==
            URIRef(INTERVENTION \o "participant/" \o participant_id)
        timepoint_uri == URIRef(INTERVENTION \o TIMEPOINTS[timepoint])
        domain_uri == URIRef(INTERVENTION \o "domain/" \o DOMAINS[domain])
        instance(bt) ==
            _create_barrier_instance(assessment_uri, participant_uri, bt,
                                     barrier_scores[bt], domain, timepoint,
                                     assessment_date)
    IN  [uri |-> assessment_uri,
         adds |->
           {<<assessment_uri, RDF_type, URIRef(BCIO \o "0000001")>>,
            <<assessment_uri, RDFS_label,
              Literal("Barrier Assessment - " \o domain, "", "en")>>,
            <<assessment_uri, URIRef(BCIO \o "has_specified_input"),
              participant_uri>>,
            <<assessment_uri, URIRef(BCIO \o "has_temporal_value"),
              Literal(assessment_date, XSD \o "dateTime", "")>>,
            <<assessment_uri, assessed_at_timepoint, timepoint_uri>>,
            <<assessment_uri, concerns_domain, domain_uri>>}
           \cup UNION {instance(bt).adds : bt \in DOMAIN barrier_scores}
           \cup {<<assessment_uri, URIRef(BFO \o "0000051"), instance(bt).uri>> :
                    bt \in DOMAIN barrier_scores}]

\* The rows of "SELECT ?score WHERE { <barrier_uri> bcio:has_severity_score ?score }".
ScoreRows(g, barrier_uri) ==
    {t[3] : t \in {u \in g : u[1] = barrier_uri /\ u[2] = has_severity_score}}

\* What the lookup would be if a missing baseline counted as a score of 0.
GetBarrierScoreDefaultZero(g, barrier_uri, first) ==
    IF ScoreRows(g, barrier_uri) # {} THEN {ParseInt(first.v)} ELSE {0}

\* Variant: the reference score is searched among all the instances of the
\* (participant, domain, barrier type) and the highest one is taken.
GetBarrierScoreBySearch(g, barrier_uri, first) ==
    LET prefix == SubSeq(barrier_uri.v, 1, Len(barrier_uri.v) - Len("baseline"))
        scores == {ParseInt(t[3].v) : t \in
                      {u \in g : /\ u[2] = has_severity_score
                                 /\ Len(u[1].v) >= Len(prefix)
                                 /\ SubSeq(u[1].v, 1, Len(prefix)) = prefix}}
    IN  IF scores = {} THEN {}
        ELSE {CHOOSE x \in scores : \A y \in scores : y <= x}

\* _get_barrier_score: int(results[0][0]) or None, as a set of at most one
\* integer.  SPARQL leaves the order of the rows open; `first` is the row the
\* query happens to return first.
_get_barrier_score(g, barrier_uri, first) ==
    IF ScoreRows(g, barrier_uri) # {} THEN {ParseInt(first.v)} ELSE {}

\* What the change would be with its operands swapped.
ChangeScoreSwapped(followup_score, baseline_score) ==
    baseline_score - followup_score

\* change_score = followup_score - baseline_score
ChangeScore(followup_score, baseline_score) ==
    followup_score - baseline_score

\* What the classification would be without its Stable branch.
ClassifyOutcomeNoStable(change_score) ==
    IF change_score <= 0 THEN Barrier_Reduction ELSE Barrier_Increase

\* The outcome class the code writes for a change score.
ClassifyOutcome(change_score) ==
    IF change_score < 0 THEN Barrier_Reduction
    ELSE IF change_score > 0 THEN Barrier_Increase
    ELSE Barrier_Stable

add_follow_up_assessment(g, participant_id, domain, timepoint, barrier_scores, assessment_date, first) ==
    LET followup ==
            add_barrier_assessment(participant_id, domain, timepoint,
                                   barrier_scores, assessment_date)
        g1 == g \cup followup.adds
        followup_barrier_uri(bt) ==
            URIRef(BARRIER \o participant_id \o "/" \o domain \o "/" \o bt
                   \o "/" \o timepoint)
        baseline_barrier_uri(bt) ==
            URIRef(BARRIER \o participant_id \o "/" \o domain \o "/" \o bt
                   \o "/baseline")
        baseline_score(bt) ==
            _get_barrier_score(g1, baseline_barrier_uri(bt), first[bt])
        link(bt) ==
            {<<followup_barrier_uri(bt), is_reassessment_of,
               baseline_barrier_uri(bt)>>}
            \cup UNION {
                 {<<followup_barrier_uri(bt), has_change_from_baseline,
                    IntegerLiteral(ChangeScore(barrier_scores[bt], b))>>,
                  <<followup_barrier_uri(bt), RDF_type,
                    ClassifyOutcome(ChangeScore(barrier_scores[bt], b))>>} :
                 b \in baseline_score(bt)}
    IN  [uri |-> followup.uri,
         adds |-> followup.adds
                  \cup UNION {link(bt) : bt \in DOMAIN barrier_scores}]

\* A term standing for "the query returned no row".
NoRow == Literal("", "", "")

\* The orders in which the baseline-score queries of one follow-up call can
\* return their rows: for each barrier type, the row that comes first.
FirstRows(g, participant_id, domain, barrier_scores) ==
    LET rows(bt) ==
            ScoreRows(g, URIRef(BARRIER \o participant_id \o "/" \o domain
                                \o "/" \o bt \o "/baseline"))
    IN  {f \in [DOMAIN barrier_scores ->
                    UNION {rows(bt) : bt \in DOMAIN barrier_scores} \cup {NoRow}] :
            \A bt \in DOMAIN barrier_scores :
                IF rows(bt) = {} THEN f[bt] = NoRow ELSE f[bt] \in rows(bt)}

---------------------------------------------------------------------------
(* Inputs of the engine runs.                                              *)

DateInputs == {"2024-01-15T09:30:00"}

\* The engine runs: one participant with every batch over two barrier types,
\* and a second participant whose recordings must not interfere.
BarrierTypeInputs == {"physical_capability", "psychological_capability"}
ScoreInputs == {0, 1}

ScoreBatches ==
    {<<>>}
    \cup {[bt \in {"physical_capability"} |-> s] : s \in ScoreInputs}
    \cup [BarrierTypeInputs -> ScoreInputs]

AssessmentInputs ==
    {[participant_id |-> "P001", domain |-> "employment", barrier_scores |-> s] :
        s \in ScoreBatches}
    \cup {[participant_id |-> "P002", domain |-> "employment",
           barrier_scores |-> [bt \in {"physical_capability"} |-> 1]]}

FollowUpTimepoints == {"day_30"}

\* The score runs: one (participant, domain, barrier type), every score the
\* assessment form documents.
MIN_SEVERITY == 0
MAX_SEVERITY == 10

ScoreRange == MIN_SEVERITY..MAX_SEVERITY

ScoreRunInputs ==
    {[participant_id |-> "P001", domain |-> "employment",
      barrier_scores |-> [bt \in {"physical_capability"} |-> s]] :
        s \in ScoreRange}

NoCall ==
    [op |-> "none", participant_id |-> "", domain |-> "", timepoint |-> "",
     barrier_scores |-> <<>>, adds |-> {}]

\* The request handlers that can be in a load-mutate-save cycle at once.
Handlers == {1, 2}

\* GRAPH_FILE before the first save: the file does not exist.  `doc` is the
\* set of statements the file holds, `ok` whether the file parses, `good` the
\* statements a parser reads before it meets the syntax error, `version` a
\* count of the writes the file has seen, `damaged` whether it was ever
\* damaged from outside.
NoArtifact ==
    [exists |-> FALSE, doc |-> {}, ok |-> TRUE, good |-> {}, version |-> 0,
     damaged |-> FALSE]

\* A handler between requests.
Idle ==
    [pc |-> "idle", kind |-> "", loaded |-> {}, adds |-> {},
     failed |-> FALSE, loadv |-> 0, participant_id |-> ""]

NoCycle ==
    [valid |-> FALSE, kind |-> "", loaded |-> {}, adds |-> {},
     failed |-> FALSE, loadv |-> 0, savev |-> 0, response |-> ""]

Init ==
    /\ graph = {}
    /\ pre = {}
    /\ call = NoCall
    /\ ncalls = 0
    /\ artifact = NoArtifact
    /\ handler = [h \in Handlers |-> Idle]
    /\ done = [h \in Handlers |-> NoCycle]
    /\ issued = <<>>
    /\ now = 0
    /\ ncycles = 0

\* What a baseline recording would be if the date were read from the clock
\* at every call instead of being the caller's.
AddBarrierAssessmentStamped(participant_id, domain, barrier_scores, assessment_date) ==
    /\ LET r == add_barrier_assessment(participant_id, domain, "baseline",
                                       barrier_scores,
                                       assessment_date \o "." \o ToString(ncalls))
       IN  /\ graph' = graph \cup r.adds
           /\ call' = [op |-> "add_barrier_assessment",
                       participant_id |-> participant_id, domain |-> domain,
                       timepoint |-> "baseline",
                       barrier_scores |-> barrier_scores, adds |-> r.adds]
    /\ pre' = graph
    /\ ncalls' = ncalls + 1
    /\ UNCHANGED cycleVars

\* Variant: a baseline recording that also writes the change on the
\* follow-up instances the store already holds for its barrier types.
AddBarrierAssessmentBackfilling(participant_id, domain, barrier_scores, assessment_date) ==
    /\ LET r == add_barrier_assessment(participant_id, domain, "baseline",
                                       barrier_scores, assessment_date)
           followup(bt, tp) ==
               URIRef(BARRIER \o participant_id \o "/" \o domain \o "/" \o bt
                      \o "/" \o tp)
           backfill(bt, tp) ==
               {<<followup(bt, tp), has_change_from_baseline,
                  IntegerLiteral(ParseInt(f.v) - barrier_scores[bt])>> :
                    f \in ScoreRows(graph, followup(bt, tp))}
       IN  /\ graph' = graph \cup r.adds
                  \cup UNION {backfill(bt, tp) :
                                bt \in DOMAIN barrier_scores,
                                tp \in DOMAIN TIMEPOINTS \ {"baseline"}}
           /\ call' = [op |-> "add_barrier_assessment",
                       participant_id |-> participant_id, domain |-> domain,
                       timepoint |-> "baseline",
                       barrier_scores |-> barrier_scores, adds |-> r.adds]
    /\ pre' = graph
    /\ ncalls' = ncalls + 1
    /\ UNCHANGED cycleVars

\* A baseline recording: the handlers call add_barrier_assessment when the
\* submitted timepoint is 'baseline'.
AddBarrierAssessment(participant_id, domain, barrier_scores, assessment_date) ==
    /\ LET r == add_barrier_assessment(participant_id, domain, "baseline",
                                       barrier_scores, assessment_date)
       IN  /\ graph' = graph \cup r.adds
           /\ call' = [op |-> "add_barrier_assessment",
                       participant_id |-> participant_id, domain |-> domain,
                       timepoint |-> "baseline",
                       barrier_scores |-> barrier_scores, adds |-> r.adds]
    /\ pre' = graph
    /\ ncalls' = ncalls + 1
    /\ UNCHANGED cycleVars

\* A follow-up recording: add_follow_up_assessment for any other timepoint.
AddFollowUpAssessment(participant_id, domain, timepoint, barrier_scores, assessment_date) ==
    /\ \E first \in FirstRows(graph, participant_id, domain, barrier_scores) :
         LET r == add_follow_up_assessment(graph, participant_id, domain,
                                           timepoint, barrier_scores,
                                           assessment_date, first)
         IN  /\ graph' = graph \cup r.adds
             /\ call' = [op |-> "add_follow_up_assessment",
                         participant_id |-> participant_id, domain |-> domain,
                         timepoint |-> timepoint,
                         barrier_scores |-> barrier_scores, adds |-> r.adds]
    /\ pre' = graph
    /\ ncalls' = ncalls + 1
    /\ UNCHANGED cycleVars

RecordBaseline ==
    /\ ncalls < MaxCalls
    /\ \E a \in AssessmentInputs, dt \in DateInputs :
         AddBarrierAssessment(a.participant_id, a.domain, a.barrier_scores, dt)

RecordFollowUp ==
    /\ ncalls < MaxCalls
    /\ \E a \in AssessmentInputs, tp \in FollowUpTimepoints, dt \in DateInputs :
         AddFollowUpAssessment(a.participant_id, a.domain, tp,
                               a.barrier_scores, dt)

Next == RecordBaseline \/ RecordFollowUp

Spec == Init /\ [][Next]_vars

ScoreBaseline ==
    /\ ncalls < MaxScoreCalls
    /\ \E a \in ScoreRunInputs, dt \in DateInputs :
         AddBarrierAssessment(a.participant_id, a.domain, a.barrier_scores, dt)

ScoreFollowUp ==
    /\ ncalls < MaxScoreCalls
    /\ \E a \in ScoreRunInputs, tp \in FollowUpTimepoints, dt \in DateInputs :
         AddFollowUpAssessment(a.participant_id, a.domain, tp,
                               a.barrier_scores, dt)

NextScores == ScoreBaseline \/ ScoreFollowUp

SpecScores == Init /\ [][NextScores]_vars

---------------------------------------------------------------------------
(* Reading a store.                                                        *)

\* The objects of the edges <<s, p, _>> of store g.
Objects(g, s, p) == {t[3] : t \in {u \in g : u[1] = s /\ u[2] = p}}

\* The barrier instances of store g for a (participant, domain, barrier
\* type) at a timepoint, found by what the store says about them.
Instances(g, participant_id, domain, barrier_type, timepoint) ==
    {t[1] : t \in
        {u \in g :
            /\ u[2] = RDF_type
            /\ u[3] = URIRef(BARRIER \o BARRIER_TYPES[barrier_type].class)
            /\ <<u[1], URIRef(BFO \o "0000052"),
                 URIRef(INTERVENTION \o "participant/" \o participant_id)>> \in g
            /\ <<u[1], concerns_domain,
                 URIRef(INTERVENTION \o "domain/" \o DOMAINS[domain])>> \in g
            /\ <<u[1], assessed_at_timepoint,
                 URIRef(INTERVENTION \o TIMEPOINTS[timepoint])>> \in g}}

\* The integer values of the edges <<s, p, _>> of store g.
IntObjects(g, s, p) == {ParseInt(o.v) : o \in Objects(g, s, p)}

\* The outcome classes store g gives subject s.
Outcomes(g, s) == Objects(g, s, RDF_type) \cap OutcomeClasses

\* Every subject of store g that carries one of the barrier classes.
BarrierSubjects(g) ==
    {t[1] : t \in
        {u \in g : /\ u[2] = RDF_type
                   /\ \E bt \in DOMAIN BARRIER_TYPES :
                        u[3] = URIRef(BARRIER \o BARRIER_TYPES[bt].class)}}

IsFollowUpCall == call.op = "add_follow_up_assessment"
IsBaselineCall == call.op = "add_barrier_assessment"

\* The instances of the last call's (participant, domain) for a barrier type.
CallInstances(g, bt, timepoint) ==
    Instances(g, call.participant_id, call.domain, bt, timepoint)

\* The baseline scores the store held, before the last call, for a barrier type.
BaselineScoresBefore(bt) ==
    UNION {IntObjects(pre, s, has_severity_score) :
              s \in CallInstances(pre, bt, "baseline")}

\* The change values the last call wrote on the follow-up instance of a type.
ChangesWritten(bt) ==
    UNION {IntObjects(call.adds, s, has_change_from_baseline) :
              s \in CallInstances(graph, bt, call.timepoint)}

\* The outcome classes the last call wrote on the follow-up instance of a type.
OutcomesWritten(bt) ==
    UNION {Outcomes(call.adds, s) :
              s \in CallInstances(graph, bt, call.timepoint)}

---------------------------------------------------------------------------
(* Claims.                                                                 *)

\* C1: a follow-up call that records score f for a (participant, domain,
\* barrier type) whose baseline instance holds a score writes exactly one
\* change edge on the follow-up instance, and its value is f - b for a score b
\* the baseline holds (so f - b when the baseline holds the one score b), for
\* every b and f in 0..10; it writes change edges on no other subject.
C1_ChangeIsFollowUpMinusBaseline ==
    IsFollowUpCall =>
        /\ \A bt \in DOMAIN call.barrier_scores :
             BaselineScoresBefore(bt) # {} =>
                /\ \E b \in BaselineScoresBefore(bt) :
                      ChangesWritten(bt) = {call.barrier_scores[bt] - b}
                /\ \A b \in ScoreRange :
                      BaselineScoresBefore(bt) = {b} =>
                         ChangesWritten(bt) = {call.barrier_scores[bt] - b}
        /\ \A t \in call.adds :
             t[2] = has_change_from_baseline =>
                \E bt \in DOMAIN call.barrier_scores :
                    t[1] \in CallInstances(graph, bt, call.timepoint)

\* C1 witness: a follow-up of 0 against a baseline of 10 wrote change -10.
C1_Witness ==
    /\ IsFollowUpCall
    /\ \E bt \in DOMAIN call.barrier_scores :
         /\ BaselineScoresBefore(bt) = {MAX_SEVERITY}
         /\ call.barrier_scores[bt] = MIN_SEVERITY
         /\ ChangesWritten(bt) = {MIN_SEVERITY - MAX_SEVERITY}

\* C2: whenever a follow-up call computes a change value for a barrier type it
\* writes exactly one outcome class on the follow-up instance:
\* Barrier_Reduction iff the change is negative, Barrier_Stable iff it is
\* zero, Barrier_Increase iff it is positive; with no change value computed it
\* writes no outcome class.
C2_OneOutcomePerChange ==
    IsFollowUpCall =>
        \A bt \in DOMAIN call.barrier_scores :
            /\ ChangesWritten(bt) = {} => OutcomesWritten(bt) = {}
            /\ \A c \in ChangesWritten(bt) :
                 /\ Cardinality(OutcomesWritten(bt)) = 1
                 /\ Barrier_Reduction \in OutcomesWritten(bt) <=> c < 0
                 /\ Barrier_Stable \in OutcomesWritten(bt) <=> c = 0
                 /\ Barrier_Increase \in OutcomesWritten(bt) <=> c > 0

\* C2 witness: a follow-up equal to its baseline was classified Barrier_Stable.
C2_Witness ==
    /\ IsFollowUpCall
    /\ \E bt \in DOMAIN call.barrier_scores :
         /\ ChangesWritten(bt) = {0}
         /\ OutcomesWritten(bt) = {Barrier_Stable}

\* C3 (as claimed): a follow-up instance recorded while a baseline existed for
\* its (participant, domain, barrier type) has exactly one is_reassessment_of
\* edge, to that baseline instance, and exactly one change edge.
C3_OneLinkOneChange ==
    IsFollowUpCall =>
        \A bt \in DOMAIN call.barrier_scores :
            CallInstances(pre, bt, "baseline") # {} =>
                \A s \in CallInstances(graph, bt, call.timepoint) :
                    /\ Objects(graph, s, is_reassessment_of)
                          = CallInstances(pre, bt, "baseline")
                    /\ Cardinality(Objects(graph, s, is_reassessment_of)) = 1
                    /\ Cardinality(Objects(graph, s, has_change_from_baseline)) = 1

\* C4 (as claimed): a barrier instance carries an is_reassessment_of edge if
\* and only if it carries a change edge and an outcome class.
C4_LinkIffChange ==
    \A s \in BarrierSubjects(graph) :
        Objects(graph, s, is_reassessment_of) # {}
            <=> /\ Objects(graph, s, has_change_from_baseline) # {}
                /\ Outcomes(graph, s) # {}

\* C5: a follow-up call for a (participant, domain, barrier type) with no
\* baseline instance completes, creates the follow-up instance with the given
\* severity score, and that instance carries no change edge and no outcome
\* class.
C5_FollowUpWithoutBaseline ==
    IsFollowUpCall =>
        \A bt \in DOMAIN call.barrier_scores :
            CallInstances(pre, bt, "baseline") = {} =>
                /\ CallInstances(graph, bt, call.timepoint) # {}
                /\ \A s \in CallInstances(graph, bt, call.timepoint) :
                     /\ call.barrier_scores[bt]
                           \in IntObjects(graph, s, has_severity_score)
                     /\ Objects(graph, s, has_change_from_baseline) = {}
                     /\ Outcomes(graph, s) = {}

\* C5 witness: a follow-up was recorded for a barrier type without a baseline
\* while the store held a baseline of another participant.
C5_Witness ==
    /\ IsFollowUpCall
    /\ \E bt \in DOMAIN call.barrier_scores :
         /\ CallInstances(pre, bt, "baseline") = {}
         /\ CallInstances(graph, bt, call.timepoint) # {}
    /\ \E s \in BarrierSubjects(pre) :
         <<s, assessed_at_timepoint,
           URIRef(INTERVENTION \o TIMEPOINTS["baseline"])>> \in pre

\* The barrier instances a call wrote.
InstancesWritten == BarrierSubjects(call.adds)

\* C6: a baseline call creates exactly one barrier instance per barrier type
\* of its batch, at timepoint baseline, with the given severity score and
\* linked from the assessment event, and writes no change edge, no
\* reassessment edge and no outcome class.
C6_BaselineInstances ==
    IsBaselineCall =>
        /\ Cardinality(InstancesWritten) = Cardinality(DOMAIN call.barrier_scores)
        /\ \A bt \in DOMAIN call.barrier_scores :
             /\ Cardinality(CallInstances(call.adds, bt, "baseline")) = 1
             /\ \A s \in CallInstances(call.adds, bt, "baseline") :
                  /\ IntObjects(call.adds, s, has_severity_score)
                        = {call.barrier_scores[bt]}
                  /\ \E e \in {t[1] : t \in call.adds} :
                        /\ <<e, RDF_type, URIRef(BCIO \o "0000001")>> \in call.adds
                        /\ <<e, URIRef(BFO \o "0000051"), s>> \in call.adds
        /\ \A t \in call.adds :
             /\ t[2] # has_change_from_baseline
             /\ t[2] # is_reassessment_of
             /\ t[2] = RDF_type => t[3] \notin OutcomeClasses

\* C6 witness: a baseline call with two barrier types in its batch.
C6_Witness ==
    /\ IsBaselineCall
    /\ Cardinality(DOMAIN call.barrier_scores) = 2
    /\ Cardinality(InstancesWritten) = 2

---------------------------------------------------------------------------
(* More string functions of the builders.                                  *)

\* str.startswith(prefix)
StartsWith(s, prefix) ==
    Len(s) >= Len(prefix) /\ SubSeq(s, 1, Len(prefix)) = prefix

\* str.replace(old, new): every occurrence, left to right.
RECURSIVE StrReplace(_, _, _)
StrReplace(s, old, new) ==
    IF s = "" THEN ""
    ELSE IF StartsWith(s, old)
         THEN new \o StrReplace(SubSeq(s, Len(old) + 1, Len(s)), old, new)
    ELSE SubSeq(s, 1, 1) \o StrReplace(SubSeq(s, 2, Len(s)), old, new)

\* str.isdigit()
IsDigitStr(s) == s # "" /\ \A i \in 1..Len(s) : IsDigit(SubSeq(s, i, i))

\* str.zfill(width) of a string without a sign.
RECURSIVE ZFill(_, _)
ZFill(s, width) == IF Len(s) >= width THEN s ELSE ZFill("0" \o s, width)

---------------------------------------------------------------------------
(* The entity builders of BCIOGraph.                                       *)

\* Literal(b, datatype=XSD.boolean) of a Python bool: lexical form str(b).lower().
BooleanLiteral(b) ==
    Literal(IF b THEN "true" ELSE "false", XSD \o "boolean", "")

StringLiteral(lex) == Literal(lex, XSD \o "string", "")

_parse_bcio_uri(prefixed_uri) ==
    IF StartsWith(prefixed_uri, "bcio:")
    THEN URIRef(BCIO \o StrReplace(prefixed_uri, "bcio:", ""))
    ELSE URIRef(prefixed_uri)

_parse_bcio_uri_from_id(bcio_id) ==
    IF bcio_id = "" THEN URIRef(BCIO \o "unknown")
    ELSE IF StartsWith(bcio_id, "BCIO:")
         THEN LET local_part ==
                      StrReplace(StrReplace(bcio_id, "BCIO:", ""), "_", "")
              IN  URIRef(BCIO \o (IF IsDigitStr(local_part)
                                  THEN ZFill(local_part, 7) ELSE local_part))
    ELSE IF StartsWith(bcio_id, "bcio:") THEN _parse_bcio_uri(bcio_id)
    ELSE URIRef(BCIO \o StrReplace(bcio_id, ":", "_"))

_create_fidelity_quality(bct_uri, fidelity_data) ==
    LET fidelity_uri == URIRef(bct_uri.v \o "/fidelity_quality")
    IN  [uri |-> fidelity_uri,
         adds |->
           {<<fidelity_uri, RDF_type, URIRef(PATO \o "0000001")>>,
            <<fidelity_uri, RDF_type, URIRef(BCIO \o "fidelity_quality")>>,
            <<fidelity_uri, URIRef(BFO \o "0000052"), bct_uri>>,
            <<fidelity_uri, URIRef(BCIO \o "has_quality_value"),
              StringLiteral(fidelity_data.value)>>,
            <<fidelity_uri, RDF_type,
              _parse_bcio_uri(fidelity_data.quality_type)>>}]

_create_mode_of_delivery_quality(encounter_uri, mode) ==
    LET mode_uri == URIRef(encounter_uri.v \o "/mode_quality")
    IN  [uri |-> mode_uri,
         adds |->
           {<<mode_uri, RDF_type, URIRef(BCIO \o "mode_of_delivery")>>,
            <<mode_uri, URIRef(BFO \o "0000052"), encounter_uri>>,
            <<mode_uri, URIRef(BCIO \o "has_quality_value"),
              StringLiteral(mode)>>}]

_create_duration_quality(encounter_uri, duration_minutes) ==
    LET duration_uri == URIRef(encounter_uri.v \o "/duration_quality")
    IN  [uri |-> duration_uri,
         adds |->
           {<<duration_uri, RDF_type, URIRef(PATO \o "0001309")>>,
            <<duration_uri, URIRef(BFO \o "0000052"), encounter_uri>>,
            <<duration_uri, URIRef(IAO \o "0000004"),
              IntegerLiteral(ParseInt(duration_minutes))>>,
            <<duration_uri, URIRef(IAO \o "0000039"), URIRef(BCIO \o "minutes")>>}]

add_bct_instance(bct_data, encounter_uri) ==
    LET bct_uri == URIRef(bct_data.bct_instance_uri)
        fidelity == _create_fidelity_quality(bct_uri, bct_data.fidelity)
    IN  [uri |-> bct_uri,
         adds |->
           {<<bct_uri, RDF_type, _parse_bcio_uri(bct_data.bct_class)>>,
            <<bct_uri, RDFS_label, Literal(bct_data.practitioner_label, "", "en")>>,
            <<bct_uri, URIRef(IAO \o "0000118"),
              Literal(bct_data.formal_label, "", "en")>>,
            <<bct_uri, URIRef(BCIO \o "auto_tagged"),
              BooleanLiteral(bct_data.auto_tagged)>>,
            <<bct_uri, URIRef(BFO \o "0000050"), encounter_uri>>}
           \cup fidelity.adds
           \cup (IF bct_data.notes # ""
                 THEN {<<bct_uri, URIRef(RDFS \o "comment"),
                         Literal(bct_data.notes, "", "en")>>}
                 ELSE {})]

add_encounter_instance(encounter_data) ==
    LET encounter_uri == URIRef(encounter_data.encounter_uri)
        participant_uri == URIRef(encounter_data.delivered_to_uri)
        mode == _create_mode_of_delivery_quality(
                    encounter_uri, encounter_data.mode_of_delivery)
        duration == _create_duration_quality(
                        encounter_uri, encounter_data.duration_minutes)
        protocol_uri ==
            URIRef(INTERVENTION \o "protocol/" \o encounter_data.protocol_id)
        practitioner_uri ==
            URIRef(INTERVENTION \o "practitioner/"
                   \o encounter_data.practitioner_id)
        bct(i) == add_bct_instance(encounter_data.bcts[i], encounter_uri)
    IN  [uri |-> encounter_uri,
         adds |->
           {<<encounter_uri, RDF_type, URIRef(BCIO \o "000001")>>,
            <<encounter_uri, RDF_type, URIRef(BFO \o "0000015")>>,
            <<encounter_uri, URIRef(BCIO \o "has_temporal_value"),
              Literal(encounter_data.timestamp, XSD \o "dateTime", "")>>,
            <<encounter_uri, URIRef(BCIO \o "has_specified_input"),
              participant_uri>>,
            <<encounter_uri, URIRef(BFO \o "0000055"), protocol_uri>>,
            <<encounter_uri, URIRef(BCIO \o "has_specified_agent"),
              practitioner_uri>>}
           \cup mode.adds
           \cup duration.adds
           \cup UNION {bct(i).adds : i \in DOMAIN encounter_data.bcts}
           \cup {<<encounter_uri, URIRef(BFO \o "0000051"), bct(i).uri>> :
                    i \in DOMAIN encounter_data.bcts}
           \cup (IF encounter_data.encounter_notes # ""
                 THEN {<<encounter_uri, URIRef(RDFS \o "comment"),
                         Literal(encounter_data.encounter_notes, "", "en")>>}
                 ELSE {})]

_create_age_attribute(participant_uri, age) ==
    LET age_uri == URIRef(participant_uri.v \o "/age_attribute")
    IN  [uri |-> age_uri,
         adds |->
           {<<age_uri, RDF_type, URIRef(PATO \o "0000011")>>,
            <<age_uri, URIRef(BFO \o "0000052"), participant_uri>>,
            <<age_uri, URIRef(IAO \o "0000004"), IntegerLiteral(age)>>,
            <<age_uri, URIRef(IAO \o "0000039"), URIRef(BCIO \o "years")>>}]

_create_population_attribute(participant_uri, tag_data) ==
    LET attribute_uri ==
            URIRef(participant_uri.v \o "/attribute/" \o tag_data.tag_name)
    IN  [uri |-> attribute_uri,
         adds |->
           {<<attribute_uri, RDF_type, _parse_bcio_uri_from_id(tag_data.bcio_id)>>,
            <<attribute_uri, RDF_type, URIRef(BFO \o "0000020")>>,
            <<attribute_uri, URIRef(BFO \o "0000052"), participant_uri>>,
            <<attribute_uri, RDFS_label,
              Literal(StrReplace(tag_data.tag_name, "_", " "), "", "en")>>,
            <<attribute_uri, URIRef(BCIO \o "attribute_category"),
              StringLiteral(tag_data.tag_category)>>}]

add_participant_instance(participant_data) ==
    LET participant_uri == URIRef(participant_data.participant_uri)
        age == _create_age_attribute(participant_uri, participant_data.age)
        tag(i) == _create_population_attribute(participant_uri,
                                               participant_data.tags[i])
    IN  [uri |-> participant_uri,
         adds |->
           {<<participant_uri, RDF_type, URIRef(BFO \o "0000040")>>,
            <<participant_uri, RDF_type,
              URIRef(BCIO \o "intervention_recipient")>>,
            <<participant_uri, URIRef(IAO \o "0000578"),
              StringLiteral(participant_data.participant_id)>>,
            <<participant_uri, URIRef(IAO \o "0000579"),
              Literal(participant_data.created_date, XSD \o "dateTime", "")>>}
           \cup age.adds
           \cup UNION {tag(i).adds : i \in DOMAIN participant_data.tags}]

---------------------------------------------------------------------------
(* The durable artifact: Turtle written by Graph.serialize and read by     *)
(* Graph.parse.  A document is the set of its statements, a statement the  *)
(* three tokens of a triple.  IRIs are written in full; lexical forms are  *)
(* single-line.                                                            *)

\* Is v the lexical form of an integer: an optional sign and digits.
IsIntegerLexical(v) ==
    IF StartsWith(v, "-") THEN IsDigitStr(SubSeq(v, 2, Len(v)))
    ELSE IsDigitStr(v)

\* The quoted form of a lexical form: backslash and quote are escaped.
QuoteEncode(lex) ==
    "\"" \o StrReplace(StrReplace(lex, "\\", "\\\\"), "\"", "\\\"") \o "\""

\* What the tokens would be if typed strings were written without their
\* datatype.
N3PlainStrings(term) ==
    IF term.k = "uri" THEN "<" \o term.v \o ">"
    ELSE IF term.dt = XSD \o "integer" /\ IsIntegerLexical(term.v) THEN term.v
    ELSE IF term.dt = XSD \o "boolean" /\ term.v \in {"true", "false"}
         THEN term.v
    ELSE IF term.lang # "" THEN QuoteEncode(term.v) \o "@" \o term.lang
    ELSE IF term.dt # "" /\ term.dt # XSD \o "string"
         THEN QuoteEncode(term.v) \o "^^<" \o term.dt \o ">"
    ELSE QuoteEncode(term.v)

\* The token the serializer writes for a term: <iri>; integers and booleans
\* bare; every other literal quoted, with its language tag or its datatype.
N3(term) ==
    IF term.k = "uri" THEN "<" \o term.v \o ">"
    ELSE IF term.dt = XSD \o "integer" /\ IsIntegerLexical(term.v) THEN term.v
    ELSE IF term.dt = XSD \o "boolean" /\ term.v \in {"true", "false"}
         THEN term.v
    ELSE IF term.lang # "" THEN QuoteEncode(term.v) \o "@" \o term.lang
    ELSE IF term.dt # "" THEN QuoteEncode(term.v) \o "^^<" \o term.dt \o ">"
    ELSE QuoteEncode(term.v)

\* Reads a quoted string of token s from position i on: the lexical form up
\* to the closing quote, and the position after it.  The characters up to
\* the next quote or backslash are taken in one step.
RECURSIVE ReadString(_, _, _)
ReadString(s, i, acc) ==
    LET stops == {j \in i..Len(s) : SubSeq(s, j, j) \in {"\"", "\\"}}
    IN  IF i > Len(s) THEN [lex |-> acc, next |-> i]
        ELSE IF stops = {}
             THEN [lex |-> acc \o SubSeq(s, i, Len(s)), next |-> Len(s) + 1]
        ELSE LET j == CHOOSE m \in stops : \A n \in stops : m <= n
                 read == IF j = i THEN acc ELSE acc \o SubSeq(s, i, j - 1)
             IN  IF SubSeq(s, j, j) = "\"" THEN [lex |-> read, next |-> j + 1]
                 ELSE ReadString(s, j + 2, read \o SubSeq(s, j + 1, j + 1))

\* The term the parser builds from a token.  A bare number goes through
\* int() and comes back in canonical form.
FromN3(token) ==
    IF StartsWith(token, "<") THEN URIRef(SubSeq(token, 2, Len(token) - 1))
    ELSE IF StartsWith(token, "\"")
         THEN LET r == ReadString(token, 2, "")
                  rest == SubSeq(token, r.next, Len(token))
              IN  IF rest = "" THEN Literal(r.lex, "", "")
                  ELSE IF StartsWith(rest, "@")
                       THEN Literal(r.lex, "", SubSeq(rest, 2, Len(rest)))
                  ELSE Literal(r.lex, SubSeq(rest, 4, Len(rest) - 1), "")
    ELSE IF token \in {"true", "false"} THEN Literal(token, XSD \o "boolean", "")
    ELSE IntegerLiteral(ParseInt(token))

\* graph.serialize(format='turtle')
serialize(g) == {<<N3(t[1]), N3(t[2]), N3(t[3])>> : t \in g}

\* graph.parse(format='turtle') of a document that parses.
parse(doc) == {<<FromN3(st[1]), FromN3(st[2]), FromN3(st[3])>> : st \in doc}

\* What a save would be if it merged the store into the file.
SaveGraphMerging(art, store) ==
    [exists |-> TRUE, doc |-> art.doc \cup serialize(store), ok |-> TRUE,
     good |-> {}, version |-> art.version + 1, damaged |-> art.damaged]

\* save_graph: the file is replaced by the serialization of the store.
save_graph(art, store) ==
    [exists |-> TRUE, doc |-> serialize(store), ok |-> TRUE,
     good |-> {}, version |-> art.version + 1, damaged |-> art.damaged]

\* What a load would be if the handler never read the file.
LoadGraphFresh(art) == [store |-> {}, failed |-> FALSE]

\* load_graph: a fresh store; the file is parsed into it when it exists.  A
\* parse error is swallowed: the handler goes on with the statements read
\* before the error.
load_graph(art) ==
    IF ~art.exists THEN [store |-> {}, failed |-> FALSE]
    ELSE IF art.ok THEN [store |-> parse(art.doc), failed |-> FALSE]
    ELSE [store |-> parse(art.good), failed |-> TRUE]

---------------------------------------------------------------------------
(* Building a store and saving it: every builder, then save_graph.         *)

ParticipantInputs ==
    {[participant_uri |-> INTERVENTION \o "participant/P001",
      participant_id |-> "P001", age |-> 25,
      created_date |-> "2024-01-15T09:30:00", tags |-> <<>>],
     [participant_uri |-> INTERVENTION \o "participant/P002",
      participant_id |-> "P002", age |-> 34,
      created_date |-> "2024-01-15T09:31:00.250000",
      tags |-> <<[tag_name |-> "adult_population", bcio_id |-> "BCIO:0000100",
                  tag_category |-> "age"]>>]}

BctInputs ==
    {[bct_instance_uri |->
          INTERVENTION \o "encounter/E20240115093100-P001/bct/1",
      bct_class |-> "BCIO:007004",
      practitioner_label |-> "Help participant set specific housing goals",
      formal_label |-> "Goal setting (behavior)",
      fidelity |-> [value |-> "delivered",
                    quality_type |-> "bcio:Fidelity_delivered"],
      notes |-> "said \"yes\"", auto_tagged |-> TRUE],
     [bct_instance_uri |->
          INTERVENTION \o "encounter/E20240115093100-P001/bct/2",
      bct_class |-> "BCIO:007156",
      practitioner_label |-> "Provide referral information or connection",
      formal_label |-> "Adding objects to the environment",
      fidelity |-> [value |-> "partial",
                    quality_type |-> "bcio:Fidelity_partial"],
      notes |-> "", auto_tagged |-> FALSE]}

EncounterInputs ==
    {[encounter_uri |-> INTERVENTION \o "encounter/E20240115093000-P001",
      timestamp |-> "2024-01-15T09:30:00",
      delivered_to_uri |-> INTERVENTION \o "participant/P001",
      mode_of_delivery |-> "face_to_face", duration_minutes |-> "60",
      protocol_id |-> "employment_support_v1", practitioner_id |-> "CLW001",
      bcts |-> <<>>, encounter_notes |-> ""]}
    \cup {[encounter_uri |-> INTERVENTION \o "encounter/E20240115093100-P001",
           timestamp |-> "2024-01-15T09:31:00",
           delivered_to_uri |-> INTERVENTION \o "participant/P001",
           mode_of_delivery |-> "face_to_face_individual",
           duration_minutes |-> "30",
           protocol_id |-> "housing_action_planning",
           practitioner_id |-> "CLW001",
           bcts |-> <<b>>, encounter_notes |-> "plan in C:\\plans"] :
              b \in BctInputs}

BuildScoreInputs == {[physical_capability |-> 7], [physical_capability |-> 3]}

\* What every build step does after its builder: the handler saves the store.
Built(r) ==
    /\ graph' = graph \cup r.adds
    /\ artifact' = save_graph(artifact, graph \cup r.adds)
    /\ ncalls' = ncalls + 1
    /\ UNCHANGED <<pre, call, handler, done, issued, now, ncycles>>

BuildParticipant ==
    /\ ncalls < MaxBuilds
    /\ \E participant_data \in ParticipantInputs :
         Built(add_participant_instance(participant_data))

BuildEncounter ==
    /\ ncalls < MaxBuilds
    /\ \E encounter_data \in EncounterInputs :
         Built(add_encounter_instance(encounter_data))

BuildBct ==
    /\ ncalls < MaxBuilds
    /\ \E bct_data \in BctInputs :
         Built(add_bct_instance(
                   bct_data,
                   URIRef(INTERVENTION \o "encounter/E20240115093100-P001")))

BuildBaseline ==
    /\ ncalls < MaxBuilds
    /\ \E barrier_scores \in BuildScoreInputs, assessment_date \in DateInputs :
         Built(add_barrier_assessment("P001", "employment", "baseline",
                                      barrier_scores, assessment_date))

BuildFollowUp ==
    /\ ncalls < MaxBuilds
    /\ \E barrier_scores \in BuildScoreInputs, assessment_date \in DateInputs :
         \E first \in FirstRows(graph, "P001", "employment", barrier_scores) :
             Built(add_follow_up_assessment(graph, "P001", "employment",
                                            "day_30", barrier_scores,
                                            assessment_date, first))

NextRoundTrip ==
    \/ BuildParticipant
    \/ BuildEncounter
    \/ BuildBct
    \/ BuildBaseline
    \/ BuildFollowUp

SpecRoundTrip == Init /\ [][NextRoundTrip]_vars

\* C10: for every store built by a sequence of participant, encounter, BCT
\* and barrier-assessment builder calls, loading the artifact that save wrote
\* yields the store's triple set: the same subjects, predicates, objects,
\* lexical forms, datatypes and language tags.
C10_LoadOfSavedStore ==
    artifact.exists =>
        /\ ~load_graph(artifact).failed
        /\ load_graph(artifact).store = graph

\* A saved store that holds an integer written bare with a sign, a boolean,
\* a language-tagged text with an escaped quote, a typed string and a typed
\* date.
C10_Witness ==
    /\ artifact.exists
    /\ load_graph(artifact).store = graph
    /\ \E t \in graph : t[2] = has_change_from_baseline /\ t[3].v = "-4"
    /\ \E t \in graph : t[3].dt = XSD \o "boolean"
    /\ \E t \in graph : t[3].lang = "en" /\ t[3].v = "said \"yes\""
    /\ \E t \in graph : t[3].dt = XSD \o "string"
    /\ \E t \in graph : t[3].dt = XSD \o "dateTime"
    /\ \E st \in artifact.doc : st[3] = "-4"
    /\ \E st \in artifact.doc : st[3] = "\"said \\\"yes\\\"\"@en"

---------------------------------------------------------------------------
(* The request handlers of app.py.  A handler loads the artifact into a    *)
(* store of its own, changes that store, and saves it; other handlers run  *)
(* between its load and its save.                                          *)

\* The clock ticks once between two requests' reads of it, and twice a
\* second.
TicksPerSecond == 2

Second(t) == t \div TicksPerSecond

\* datetime.now().isoformat() at tick t.
IsoFormat(t) ==
    "2024-01-15T09:30:0" \o ToString(Second(t))
    \o (IF t % TicksPerSecond = 0 THEN ".000000" ELSE ".500000")

\* datetime.now().strftime("%Y%m%d%H%M%S") at tick t.
StrfTime(t) == "2024011509300" \o ToString(Second(t))

\* SELECT (COUNT(?p) as ?count) WHERE { ?p a bfo:0000040 }
CountParticipants(g) ==
    Cardinality({t \in g : t[2] = RDF_type /\ t[3] = URIRef(BFO \o "0000040")})

\* What the identifier would be in a field of exactly three digits.
ParticipantIdFixedWidth(count) ==
    "P" \o SubSeq(ZFill(ToString(count + 1), 3),
                  Len(ZFill(ToString(count + 1), 3)) - 2,
                  Len(ZFill(ToString(count + 1), 3)))

\* participant_id = f"P{str(count + 1).zfill(3)}"
ParticipantId(count) == "P" \o ZFill(ToString(count + 1), 3)

\* The recordings new_assessment is asked for.
CycleAssessmentInputs ==
    {[participant_id |-> "P001", domain |-> "employment",
      timepoint |-> "baseline", barrier_scores |-> [physical_capability |-> 1]],
     [participant_id |-> "P001", domain |-> "employment",
      timepoint |-> "day_30", barrier_scores |-> [physical_capability |-> 0]]}

\* A request reaches the lowest-numbered handler that is free.
Free(h) ==
    /\ ncycles < MaxCycles
    /\ handler[h].pc = "idle"
    /\ \A other \in Handlers : other < h => handler[other].pc # "idle"

\* The handler has loaded the artifact and changed its own store.
Loaded(h, kind, l, adds, participant_id) ==
    /\ handler' = [handler EXCEPT ![h] =
                      [pc |-> "loaded", kind |-> kind, loaded |-> l.store,
                       adds |-> adds, failed |-> l.failed,
                       loadv |-> artifact.version,
                       participant_id |-> participant_id]]
    /\ now' = now + 1
    /\ ncycles' = ncycles + 1
    /\ UNCHANGED <<artifact, done, issued, graph, pre, call, ncalls>>

\* The participant both creation handlers build from the loaded store.
NewParticipantData(store, age, t) ==
    [participant_uri |->
         INTERVENTION \o "participant/" \o ParticipantId(CountParticipants(store)),
     participant_id |-> ParticipantId(CountParticipants(store)),
     age |-> age, created_date |-> IsoFormat(t), tags |-> <<>>]

\* new_participant, up to its save.
NewParticipant(h) ==
    /\ Free(h)
    /\ LET l == load_graph(artifact)
           participant_data == NewParticipantData(l.store, 25, now)
       IN  Loaded(h, "participant", l,
                  add_participant_instance(participant_data).adds,
                  participant_data.participant_id)

\* submit_participant, up to its save.
SubmitParticipant(h) ==
    /\ Free(h)
    /\ LET l == load_graph(artifact)
           participant_data == NewParticipantData(l.store, 25, now)
       IN  Loaded(h, "participant", l,
                  add_participant_instance(participant_data).adds,
                  participant_data.participant_id)

\* new_encounter, up to its save.
NewEncounter(h) ==
    /\ Free(h)
    /\ LET l == load_graph(artifact)
           encounter_data ==
               [encounter_uri |->
                    INTERVENTION \o "encounter/E" \o StrfTime(now) \o "-P001",
                timestamp |-> IsoFormat(now),
                delivered_to_uri |-> INTERVENTION \o "participant/P001",
                mode_of_delivery |-> "face_to_face",
                duration_minutes |-> "60",
                protocol_id |-> "employment_support_v1",
                practitioner_id |-> "CLW001",
                bcts |-> <<>>, encounter_notes |-> ""]
       IN  Loaded(h, "encounter", l,
                  add_encounter_instance(encounter_data).adds, "P001")

\* new_assessment, up to its save.
NewAssessment(h) ==
    /\ Free(h)
    /\ \E a \in CycleAssessmentInputs :
         LET l == load_graph(artifact)
         IN  IF a.timepoint = "baseline"
             THEN Loaded(h, "assessment", l,
                         add_barrier_assessment(
                             a.participant_id, a.domain, a.timepoint,
                             a.barrier_scores, IsoFormat(now)).adds,
                         a.participant_id)
             ELSE \E first \in FirstRows(l.store, a.participant_id, a.domain,
                                         a.barrier_scores) :
                      Loaded(h, "assessment", l,
                             add_follow_up_assessment(
                                 l.store, a.participant_id, a.domain,
                                 a.timepoint, a.barrier_scores,
                                 IsoFormat(now), first).adds,
                             a.participant_id)

\* The save that ends every handler, and its answer to the caller.
SaveGraph(h) ==
    /\ handler[h].pc = "loaded"
    /\ artifact' = save_graph(artifact, handler[h].loaded \cup handler[h].adds)
    /\ done' = [done EXCEPT ![h] =
                   [valid |-> TRUE, kind |-> handler[h].kind,
                    loaded |-> handler[h].loaded, adds |-> handler[h].adds,
                    failed |-> handler[h].failed, loadv |-> handler[h].loadv,
                    savev |-> artifact.version + 1, response |-> "success"]]
    /\ issued' = IF handler[h].kind = "participant"
                 THEN Append(issued, handler[h].participant_id)
                 ELSE issued
    /\ handler' = [handler EXCEPT ![h] = Idle]
    /\ UNCHANGED <<now, ncycles, graph, pre, call, ncalls>>

\* The file is damaged from outside, once in a run: it no longer parses.  A
\* parser still reads the statements before the damage: none of them, or
\* all of them.
TurnUnparseable ==
    /\ artifact.exists
    /\ artifact.ok
    /\ ~artifact.damaged
    /\ \E good \in {{}, artifact.doc} :
         artifact' = [artifact EXCEPT !.ok = FALSE, !.good = good,
                                      !.version = artifact.version + 1,
                                      !.damaged = TRUE]
    /\ UNCHANGED <<handler, done, issued, now, ncycles, graph, pre, call, ncalls>>

NewParticipants == \E h \in Handlers : NewParticipant(h)

SubmitParticipants == \E h \in Handlers : SubmitParticipant(h)

NewEncounters == \E h \in Handlers : NewEncounter(h)

NewAssessments == \E h \in Handlers : NewAssessment(h)

SaveGraphs == \E h \in Handlers : SaveGraph(h)

NextCycles ==
    \/ NewParticipants
    \/ SubmitParticipants
    \/ NewEncounters
    \/ NewAssessments
    \/ SaveGraphs
    \/ TurnUnparseable

SpecCycles == Init /\ [][NextCycles]_vars

---------------------------------------------------------------------------
(* Claims about the load-mutate-save cycles.                               *)

\* The store a completed cycle saved: what it loaded plus what it added.
SavedStore(h) == done[h].loaded \cup done[h].adds

\* The last cycles of handlers e and l raced: both loaded before either
\* saved, e saved first, l saved last, and nothing wrote the artifact since.
Raced(e, l) ==
    /\ e # l
    /\ done[e].valid
    /\ done[l].valid
    /\ done[e].savev < done[l].savev
    /\ done[l].loadv < done[e].savev
    /\ artifact.version = done[l].savev

\* C7: when two cycles both load the artifact before either saves, the
\* artifact after both saves holds exactly the later saver's loaded store
\* plus its own additions, and every triple the earlier saver added is absent
\* from it unless the later saver's own store holds that triple too.
C7_LastWriterWins ==
    \A e, l \in Handlers :
        Raced(e, l) =>
            /\ load_graph(artifact).store = SavedStore(l)
            /\ (done[e].adds \ SavedStore(l)) \cap load_graph(artifact).store = {}

\* A race after which part of what the earlier saver added is gone and part
\* of it is in the artifact, because the later saver added those triples too.
C7_Witness ==
    \E e, l \in Handlers :
        /\ Raced(e, l)
        /\ load_graph(artifact).store = SavedStore(l)
        /\ done[e].adds \ SavedStore(l) # {}
        /\ done[e].adds \cap SavedStore(l) # {}

\* C7 as stated: after a race the artifact is the later saver's store, and
\* the triples the earlier saver added are absent from it.
C7_EarlierAddsAbsent ==
    \A e, l \in Handlers :
        Raced(e, l) =>
            /\ load_graph(artifact).store = SavedStore(l)
            /\ done[e].adds \cap load_graph(artifact).store = {}

\* C8: no two completed participant creations were answered with the same
\* identifier, and the artifact holds as many participant nodes as there are
\* completed creations.
C8_UniqueParticipantIds ==
    /\ \A i, j \in DOMAIN issued : i # j => issued[i] # issued[j]
    /\ artifact.ok =>
           CountParticipants(load_graph(artifact).store) = Len(issued)

\* C9: a handler whose load met an unparseable artifact ends without
\* changing the artifact and answers its caller with an error.
C9_UnparseableAborts ==
    [][\A h \in Handlers :
           (handler[h].pc = "loaded" /\ handler[h].failed
                /\ handler'[h].pc = "idle")
           => (artifact' = artifact /\ done'[h].response = "error")]_vars

---------------------------------------------------------------------------
(* Cycles that run one after another.                                      *)

\* Handler h is about to save and nothing has written the artifact since h
\* loaded it: its cycle runs alone.
SavesAlone(h) ==
    /\ handler[h].pc = "loaded"
    /\ ~handler[h].failed
    /\ handler[h].loadv = artifact.version

\* C11: when a cycle runs alone on a parseable artifact, every triple the
\* artifact held before the cycle's save is in the artifact after it.
C11_CyclePreservesTriples ==
    [][\A h \in Handlers :
           (SavesAlone(h) /\ handler'[h].pc = "idle")
           => parse(artifact.doc) \subseteq parse(artifact'.doc)]_vars

\* A cycle that ran alone on an artifact that held triples, added triples of
\* its own, and left every earlier triple in the artifact.
C11_Witness ==
    \E h \in Handlers :
        /\ done[h].valid
        /\ ~done[h].failed
        /\ done[h].savev = done[h].loadv + 1
        /\ artifact.version = done[h].savev
        /\ done[h].loaded # {}
        /\ done[h].adds \ done[h].loaded # {}
        /\ done[h].loaded \subseteq parse(artifact.doc)

---------------------------------------------------------------------------
(* Repeating a recording.                                                  *)

\* The triples a second add_barrier_assessment with the arguments of the last
\* call would pass to graph.add.
SecondCallAdds(assessment_date) ==
    add_barrier_assessment(call.participant_id, call.domain, call.timepoint,
                           call.barrier_scores, assessment_date).adds

---------------------------------------------------------------------------
(* Deriving participant identifiers.                                       *)

\* The sequence numbers count + 1 the runs derive identifiers from: around
\* every change in the number of digits.
SequenceNumbers == {1, 2, 9, 10, 99, 100, 999, 1000, 1001, 10000}

\* The creation handlers derive the identifier of sequence number n.
DeriveParticipantId ==
    /\ Len(issued) < MaxDerivations
    /\ \E n \in SequenceNumbers :
           issued' = Append(issued, ParticipantId(n - 1))
    /\ UNCHANGED <<graph, pre, call, ncalls, artifact, handler, done, now,
                   ncycles>>

NextIds == DeriveParticipantId

SpecIds == Init /\ [][NextIds]_vars

\* C13: every identifier derived is "P" followed by its sequence number
\* padded with zeros to at least three digits, and two sequence numbers yield
\* the same identifier only if they are the same number, also from 1000 on.
C13_ParticipantIdInjective ==
    /\ \A i \in DOMAIN issued :
           \E n \in SequenceNumbers :
               /\ issued[i] = ParticipantId(n - 1)
               /\ issued[i] = "P" \o ZFill(ToString(n), 3)
               /\ Len(issued[i]) >= 4
    /\ \A n, m \in SequenceNumbers :
           ParticipantId(n - 1) = ParticipantId(m - 1) => n = m

\* The identifiers of sequence numbers 1 and 1000 were derived, and differ.
C13_Witness ==
    /\ \E i \in DOMAIN issued : issued[i] = "P001"
    /\ \E j \in DOMAIN issued : issued[j] = "P1000"


\* ---------------------------------------------------------------------------
\* encounter_app.py / app_enhanced.py: auto-tagging of an encounter.

\* Python's None where a dict is expected.
None == [is_none |-> TRUE]

\* dict.get(key, default); None has no keys.
Get(d, key, default) ==
    IF d # None /\ key \in DOMAIN d THEN d[key] ELSE default

\* Python's `sub in s` on strings.
StrContains(s, sub) ==
    \E i \in 1..(Len(s) - Len(sub) + 1) : SubSeq(s, i, i + Len(sub) - 1) = sub

BctDef(bct_id, label, practitioner_label, auto, bct_class) ==
    [bct_id |-> bct_id, label |-> label,
     practitioner_label |-> practitioner_label, auto |-> auto,
     bct_class |-> bct_class]

\* Three protocols of the catalog: one that lists BCT_12.5 last, one that
\* does not list it, one that lists it first.
PROTOCOL_CATALOG ==
    [housing_action_planning |->
        [bcts |-> <<
            BctDef("BCT_1.1", "Goal setting (behavior)",
                   "Help participant set specific housing goals", TRUE,
                   "BCIO:007004"),
            BctDef("BCT_1.4", "Action planning",
                   "Create action plan together", TRUE, "BCIO:007010"),
            BctDef("BCT_3.2", "Social support (practical)",
                   "Arrange practical support from others", FALSE,
                   "BCIO:007030"),
            BctDef("BCT_12.5", "Adding objects to the environment",
                   "Provide resources or materials", FALSE, "BCIO:007156")>>],
     substance_use_brief_intervention |->
        [bcts |-> <<
            BctDef("BCT_5.1", "Information about health consequences",
                   "Discuss health impacts of substance use", TRUE,
                   "BCIO:007054"),
            BctDef("BCT_5.3",
                   "Information about social/environmental consequences",
                   "Discuss how substance use affects life circumstances",
                   TRUE, "BCIO:007056"),
            BctDef("BCT_13.2", "Framing/reframing",
                   "Help see situation from different perspective", FALSE,
                   "BCIO:007174"),
            BctDef("BCT_9.2", "Pros and cons",
                   "Explore benefits and drawbacks together", TRUE,
                   "BCIO:007100"),
            BctDef("BCT_1.5", "Review behavior goals",
                   "Check progress on previous goals", FALSE,
                   "BCIO:007013")>>],
     referral_provision |->
        [bcts |-> <<
            BctDef("BCT_12.5", "Adding objects to the environment",
                   "Provide referral information or connection", TRUE,
                   "BCIO:007156"),
            BctDef("BCT_3.2", "Social support (practical)",
                   "Arrange connection to service", TRUE, "BCIO:007030"),
            BctDef("BCT_4.1", "Instruction on how to perform behavior",
                   "Explain how to access the service", FALSE,
                   "BCIO:007037")>>]]

\* PROTOCOL_CATALOG.get(protocol_id, {}).get('bcts', [])
ProtocolBcts(protocol_id) ==
    IF protocol_id \in DOMAIN PROTOCOL_CATALOG
    THEN PROTOCOL_CATALOG[protocol_id].bcts
    ELSE <<>>

generate_bct_uri(encounter_id, bct_index) ==
    "http://interventions.org/encounter/" \o encounter_id \o "/bct/"
        \o ToString(bct_index)

\* The instance built for one confirmed catalog technique.
ConfirmedBctInstance(encounter_id, bct_index, bct_def, confirmed) ==
    LET fidelity == Get(confirmed, "fidelity", "not_assessed")
    IN  [bct_instance_uri |-> generate_bct_uri(encounter_id, bct_index),
         bct_class |-> bct_def.bct_class,
         bct_id |-> bct_def.bct_id,
         practitioner_label |-> bct_def.practitioner_label,
         formal_label |-> bct_def.label,
         fidelity |-> [value |-> fidelity,
                       quality_type |-> "bcio:Fidelity_" \o fidelity],
         notes |-> Get(confirmed, "notes", ""),
         auto_tagged |-> bct_def.auto]

\* The instance appended for a referral.
ReferralBctInstance(encounter_id, bct_index, referral_data) ==
    [bct_instance_uri |-> generate_bct_uri(encounter_id, bct_index),
     bct_class |-> "BCIO:007156",
     bct_id |-> "BCT_12.5",
     practitioner_label |-> "Provide referral information or connection",
     formal_label |-> "Adding objects to the environment",
     fidelity |-> [value |-> "delivered",
                   quality_type |-> "bcio:Fidelity_delivered"],
     notes |-> "Referral to " \o Get(referral_data, "category", "unspecified"),
     auto_tagged |-> TRUE,
     referral_context |-> referral_data]

\* Variant: every technique of the protocol is instantiated, confirmed or
\* not, with the fidelity "delivered" where none was submitted.
AutoTagWholeProtocol(encounter_id, bcts, confirmed_bcts, i, bct_instances) ==
    [j \in 1..Len(bcts) |->
        ConfirmedBctInstance(encounter_id, j, bcts[j],
            IF bcts[j].bct_id \in DOMAIN confirmed_bcts
            THEN confirmed_bcts[bcts[j].bct_id]
            ELSE [fidelity |-> "delivered"])]

\* The loop over the protocol's techniques: bcts[i..] are still to be
\* visited, bct_instances holds what was appended so far (bct_index is its
\* length).
RECURSIVE TagProtocolBcts(_, _, _, _, _)
TagProtocolBcts(encounter_id, bcts, confirmed_bcts, i, bct_instances) ==
    IF i > Len(bcts) THEN bct_instances
    ELSE IF bcts[i].bct_id \in DOMAIN confirmed_bcts
    THEN TagProtocolBcts(encounter_id, bcts, confirmed_bcts, i + 1,
             Append(bct_instances,
                    ConfirmedBctInstance(encounter_id, Len(bct_instances) + 1,
                        bcts[i], confirmed_bcts[bcts[i].bct_id])))
    ELSE TagProtocolBcts(encounter_id, bcts, confirmed_bcts, i + 1,
                         bct_instances)

\* referral_data and referral_data.get('was_referral_made')
ReferralMade(referral_data) ==
    referral_data # None /\ Get(referral_data, "was_referral_made", FALSE)

\* Variant: the referral technique is appended whenever a referral was made,
\* without looking at the instances already built.
AutoTagAlwaysAppend(encounter_id, protocol_id, confirmed_bcts, referral_data) ==
    LET bct_instances ==
            TagProtocolBcts(encounter_id, ProtocolBcts(protocol_id),
                            confirmed_bcts, 1, <<>>)
    IN  IF ReferralMade(referral_data)
        THEN Append(bct_instances,
                    ReferralBctInstance(encounter_id, Len(bct_instances) + 1,
                                        referral_data))
        ELSE bct_instances

auto_tag_encounter(encounter_id, protocol_id, confirmed_bcts, referral_data) ==
    LET bct_instances ==
            TagProtocolBcts(encounter_id, ProtocolBcts(protocol_id),
                            confirmed_bcts, 1, <<>>)
    IN  IF /\ ReferralMade(referral_data)
           /\ ~\E k \in DOMAIN bct_instances :
                  StrContains(bct_instances[k].bct_id, "BCT_12.5")
        THEN Append(bct_instances,
                    ReferralBctInstance(encounter_id, Len(bct_instances) + 1,
                                        referral_data))
        ELSE bct_instances

\* Inputs of auto_tag_encounter: a listed and an unlisted protocol, what the
\* form can confirm (a technique with a fidelity, or with the notes alone), a
\* referral made, declined or not asked.
MaxTagCalls == 1

ProtocolInputs ==
    {"housing_action_planning", "substance_use_brief_intervention",
     "referral_provision", "unlisted_protocol"}

ConfirmedInputs ==
    UNION {[ids -> {[fidelity |-> "partial", notes |-> ""],
                    [notes |-> "leaflet"]}] :
           ids \in SUBSET {"BCT_1.1", "BCT_3.2", "BCT_12.5"}}

ReferralInputs ==
    {None,
     [was_referral_made |-> FALSE, category |-> "housing",
      destination |-> "Shelter", accepted |-> FALSE],
     [was_referral_made |-> TRUE, category |-> "housing",
      destination |-> "Shelter", accepted |-> TRUE]}

AutoTagEncounter ==
    /\ ncalls < MaxTagCalls
    /\ \E protocol_id \in ProtocolInputs, confirmed_bcts \in ConfirmedInputs,
          referral_data \in ReferralInputs :
          call' = [op |-> "auto_tag_encounter",
                   encounter_id |-> "ENC_20240115_093000",
                   protocol_id |-> protocol_id,
                   confirmed_bcts |-> confirmed_bcts,
                   referral_data |-> referral_data,
                   bct_instances |->
                       auto_tag_encounter("ENC_20240115_093000", protocol_id,
                                          confirmed_bcts, referral_data)]
    /\ ncalls' = ncalls + 1
    /\ UNCHANGED <<graph, pre>>
    /\ UNCHANGED cycleVars

NextAutoTag == AutoTagEncounter

SpecAutoTag == Init /\ [][NextAutoTag]_vars

IsAutoTagCall == call.op = "auto_tag_encounter"

\* Positions of the returned list holding an instance of BCT_12.5.
ReferralTechniquePositions ==
    {k \in DOMAIN call.bct_instances : call.bct_instances[k].bct_id = "BCT_12.5"}

\* Positions holding the synthetic instance (the one carrying the referral).
SyntheticPositions ==
    {k \in DOMAIN call.bct_instances :
        "referral_context" \in DOMAIN call.bct_instances[k]}

\* The protocol lists BCT_12.5 and the practitioner confirmed it.
ReferralTechniqueConfirmed ==
    /\ "BCT_12.5" \in DOMAIN call.confirmed_bcts
    /\ \E k \in DOMAIN ProtocolBcts(call.protocol_id) :
           ProtocolBcts(call.protocol_id)[k].bct_id = "BCT_12.5"

\* C14: a call with a referral made returns exactly one instance of
\* BCT_12.5: no synthetic instance when a confirmed one is present, exactly
\* one synthetic instance (auto_tagged, fidelity delivered), appended last,
\* when none is; a call with no referral made returns no synthetic instance.
C14_OneReferralTechnique ==
    IsAutoTagCall =>
        IF ReferralMade(call.referral_data)
        THEN /\ Cardinality(ReferralTechniquePositions) = 1
             /\ ReferralTechniqueConfirmed => SyntheticPositions = {}
             /\ ~ReferralTechniqueConfirmed =>
                    /\ SyntheticPositions = {Len(call.bct_instances)}
                    /\ call.bct_instances[Len(call.bct_instances)].auto_tagged
                    /\ call.bct_instances[Len(call.bct_instances)]
                           .fidelity.value = "delivered"
        ELSE SyntheticPositions = {}

C14_Witness ==
    /\ IsAutoTagCall
    /\ ReferralMade(call.referral_data)
    /\ ReferralTechniqueConfirmed
    /\ call.protocol_id = "housing_action_planning"
    /\ Len(call.bct_instances) = 3
    /\ call.bct_instances[3].bct_id = "BCT_12.5"
    /\ ~call.bct_instances[3].auto_tagged

\* The identifiers of the protocol's techniques that are keys of
\* confirmed_bcts, in catalog order.
ConfirmedCatalogIds ==
    LET bcts == ProtocolBcts(call.protocol_id)
        ids  == [k \in DOMAIN bcts |-> bcts[k].bct_id]
    IN  SelectSeq(ids, LAMBDA bct_id : bct_id \in DOMAIN call.confirmed_bcts)

\* The identifiers of the returned instances that come from the catalog loop.
EmittedCatalogIds ==
    LET ids == [k \in DOMAIN call.bct_instances |->
                    IF k \in SyntheticPositions THEN ""
                    ELSE call.bct_instances[k].bct_id]
    IN  SelectSeq(ids, LAMBDA bct_id : bct_id # "")

\* C15: the instances emitted for catalog techniques are those of the
\* techniques whose id is a key of confirmed_bcts, in catalog order; for
\* housing_action_planning with nothing confirmed and a referral made the
\* result is the single auto-tagged referral technique with fidelity
\* delivered.
C15_ConfirmedInCatalogOrder ==
    IsAutoTagCall =>
        /\ EmittedCatalogIds = ConfirmedCatalogIds
        /\ (/\ call.protocol_id = "housing_action_planning"
            /\ DOMAIN call.confirmed_bcts = {}
            /\ ReferralMade(call.referral_data))
           => /\ Len(call.bct_instances) = 1
              /\ call.bct_instances[1].bct_id = "BCT_12.5"
              /\ call.bct_instances[1].auto_tagged
              /\ call.bct_instances[1].fidelity.value = "delivered"
              /\ SyntheticPositions = {1}

C15_Witness ==
    /\ IsAutoTagCall
    /\ call.protocol_id = "housing_action_planning"
    /\ DOMAIN call.confirmed_bcts = {"BCT_1.1", "BCT_3.2"}
    /\ EmittedCatalogIds = <<"BCT_1.1", "BCT_3.2">>
    /\ call.bct_instances[2].bct_instance_uri
           = "http://interventions.org/encounter/ENC_20240115_093000/bct/2"


\* ---------------------------------------------------------------------------
\* app.py: submit_encounter.

\* The handler's own catalog holds the same techniques for these protocols
\* as PROTOCOL_CATALOG above; an unlisted protocol is given the housing one.
SubmitProtocolBcts(protocol_id) ==
    IF protocol_id \in {"housing_action_planning",
                        "substance_use_brief_intervention"}
    THEN PROTOCOL_CATALOG[protocol_id].bcts
    ELSE PROTOCOL_CATALOG["housing_action_planning"].bcts

\* The loop over the protocol's techniques: one instance per technique,
\* fidelity from the form's bct_fidelity_<id> field, "delivered" without it.
FormBctInstances(encounter_id, bcts, form) ==
    [j \in 1..Len(bcts) |->
        LET fidelity == Get(form, "bct_fidelity_" \o bcts[j].bct_id,
                            "delivered")
        IN  [bct_instance_uri |-> INTERVENTION \o "encounter/" \o encounter_id
                                      \o "/bct/" \o ToString(j),
             bct_class |-> bcts[j].bct_class,
             bct_id |-> bcts[j].bct_id,
             practitioner_label |-> bcts[j].practitioner_label,
             formal_label |-> bcts[j].label,
             fidelity |-> [value |-> fidelity,
                           quality_type |-> "bcio:Fidelity_" \o fidelity],
             notes |-> Get(form, "bct_notes_" \o bcts[j].bct_id, ""),
             auto_tagged |-> bcts[j].auto]]

\* referral_data as the handler builds it from the form.
FormReferralData(form) ==
    IF Get(form, "was_referral_made", "") = "yes"
    THEN [was_referral_made |-> TRUE,
          category |-> Get(form, "referral_category", "None"),
          destination |-> Get(form, "referral_destination", "None"),
          accepted |-> Get(form, "referral_accepted", "") = "yes"]
    ELSE None

\* encounter_data['bcts'] of submit_encounter.
SubmitEncounterBcts(encounter_id, form) ==
    LET protocol_id == Get(form, "protocol_id", "housing_action_planning")
        bct_instances ==
            FormBctInstances(encounter_id, SubmitProtocolBcts(protocol_id),
                             form)
        referral_data == FormReferralData(form)
    IN  IF /\ referral_data # None
           /\ ~\E k \in DOMAIN bct_instances :
                  StrContains(bct_instances[k].bct_id, "BCT_12.5")
        THEN Append(bct_instances,
                    ReferralBctInstance(encounter_id, Len(bct_instances) + 1,
                                        referral_data))
        ELSE bct_instances

MaxSubmits == 1

Restrict(f, keys) == [k \in keys |-> f[k]]

\* Encounter forms: the participant is always sent; the protocol, the
\* fidelity of a technique and the referral answer may each be missing.
FormInputs ==
    {Restrict(("participant_id" :> "P001") @@ ("protocol_id" :> protocol_id)
                  @@ ("bct_fidelity_BCT_1.1" :> goal_fidelity)
                  @@ ("bct_fidelity_BCT_12.5" :> "partial")
                  @@ ("bct_fidelity_BCT_5.1" :> "delivered")
                  @@ ("was_referral_made" :> referral)
                  @@ ("referral_category" :> "housing"),
              {"participant_id", "referral_category"} \cup sent) :
        protocol_id \in {"substance_use_brief_intervention",
                         "unlisted_protocol"},
        goal_fidelity \in {"delivered", "partial"},
        referral \in {"yes", "no"},
        sent \in SUBSET {"protocol_id", "bct_fidelity_BCT_1.1",
                         "bct_fidelity_BCT_12.5", "bct_fidelity_BCT_5.1",
                         "was_referral_made"}}

\* submit_encounter of app.py on one form: load, build the encounter from the
\* form, add it, save.  The identifier is the clock's second and the
\* participant.
SubmitEncounterForm(form) ==
    LET l == load_graph(artifact)
        encounter_id == "E" \o StrfTime(now) \o "-" \o form["participant_id"]
        protocol_id ==
            Get(form, "protocol_id", "housing_action_planning")
        bct_instances == SubmitEncounterBcts(encounter_id, form)
        encounter_data ==
            [encounter_uri |-> INTERVENTION \o "encounter/" \o encounter_id,
             timestamp |-> IsoFormat(now),
             delivered_to_uri |-> INTERVENTION \o "participant/"
                                      \o form["participant_id"],
             mode_of_delivery |->
                 Get(form, "mode_of_delivery", "face_to_face_individual"),
             duration_minutes |-> Get(form, "duration_minutes", "30"),
             protocol_id |-> protocol_id,
             practitioner_id |-> Get(form, "practitioner_id", "CLW001"),
             bcts |-> bct_instances,
             encounter_notes |-> Get(form, "encounter_notes", "")]
        store == l.store \cup add_encounter_instance(encounter_data).adds
    IN  /\ graph' = store
        /\ artifact' = save_graph(artifact, store)
        /\ pre' = l.store
        /\ call' = [op |-> "submit_encounter", form |-> form,
                    encounter_id |-> encounter_id,
                    protocol_id |-> protocol_id,
                    bct_instances |-> bct_instances]

SubmitEncounter ==
    /\ ncalls < MaxSubmits
    /\ \E form \in FormInputs : SubmitEncounterForm(form)
    /\ ncalls' = ncalls + 1
    /\ now' = now + 1
    /\ UNCHANGED <<handler, done, issued, ncycles>>

NextSubmit == SubmitEncounter

SpecSubmit == Init /\ [][NextSubmit]_vars

IsSubmitEncounterCall == call.op = "submit_encounter"

\* C16: every instance submit_encounter builds for a catalog technique is of
\* a technique whose fidelity field the practitioner submitted: a technique
\* with no fidelity field in the form yields no instance.
C16_OnlyConfirmedTechniques ==
    IsSubmitEncounterCall =>
        \A k \in DOMAIN call.bct_instances :
            \/ "referral_context" \in DOMAIN call.bct_instances[k]
            \/ ("bct_fidelity_" \o call.bct_instances[k].bct_id)
                   \in DOMAIN call.form


\* ---------------------------------------------------------------------------
\* Reading the barrier data: the analytics dashboard and the barrier queries.

\* s.split(sep)[-1] for a one-character separator.
RECURSIVE SplitLastOnFrom(_, _, _)
SplitLastOnFrom(s, sep, i) ==
    IF i = 0 THEN s
    ELSE IF SubSeq(s, i, i) = sep THEN SubSeq(s, i + 1, Len(s))
    ELSE SplitLastOnFrom(s, sep, i - 1)

SplitLastOn(s, sep) == SplitLastOnFrom(s, sep, Len(s))

\* The solutions of { ?barrier bcio:has_change_from_baseline ?change }: one
\* per edge.
ChangeSolutions(g) ==
    {<<t[1], t[3]>> : t \in {u \in g : u[2] = has_change_from_baseline}}

\* The ?change column of the solutions in ascending order, one entry per
\* solution, each converted with int().
RECURSIVE SortedChanges(_)
SortedChanges(rows) ==
    IF rows = {} THEN <<>>
    ELSE LET least == CHOOSE r \in rows :
                          \A q \in rows : ParseInt(r[2].v) <= ParseInt(q[2].v)
         IN  <<ParseInt(least[2].v)>> \o SortedChanges(rows \ {least})

\* Variant: the query with SELECT DISTINCT, one entry per change value.
DistinctChanges(g) ==
    SortedChanges({<<has_change_from_baseline, r[2]>> : r \in ChangeSolutions(g)})

\* changes = [int(r[0]) for r in results]
Changes(g) == SortedChanges(ChangeSolutions(g))

get_change_score_distribution(g) ==
    LET changes == Changes(g)
    IN  [changes |-> changes,
         improved_count |-> Len(SelectSeq(changes, LAMBDA c : c < 0)),
         stable_count |-> Len(SelectSeq(changes, LAMBDA c : c = 0)),
         worsened_count |-> Len(SelectSeq(changes, LAMBDA c : c > 0))]

\* An OPTIONAL variable left unbound in a solution.
Unbound == [k |-> "unbound", v |-> "", dt |-> "", lang |-> ""]

\* Python's truth value of a query result cell: None is false, an integer
\* literal is true when its value is not 0.
Truthy(cell) == cell # Unbound /\ ParseInt(cell.v) # 0

\* The solutions of the graph pattern of get_participant_barriers for one
\* ?barrier: <<label, domain, timepoint, score, change>>.
BarrierSolutions(g, b) ==
    {<<l, d, t, s, c>> :
        l \in Objects(g, b, RDFS_label),
        d \in Objects(g, b, concerns_domain),
        t \in Objects(g, b, assessed_at_timepoint),
        s \in Objects(g, b, has_severity_score),
        c \in IF Objects(g, b, has_change_from_baseline) = {}
              THEN {Unbound}
              ELSE Objects(g, b, has_change_from_baseline)}

\* One result dict; change_from_baseline is int or None, as a set of at most
\* one integer.
BarrierResult(b, sol) ==
    [barrier_uri |-> b.v,
     label |-> sol[1].v,
     domain |-> SplitLastOn(sol[2].v, "/"),
     timepoint |-> SplitLastOn(sol[3].v, ":"),
     severity_score |-> ParseInt(sol[4].v),
     change_from_baseline |->
         IF Truthy(sol[5]) THEN {ParseInt(sol[5].v)} ELSE {}]

\* get_participant_barriers: `failed` when a vocabulary lookup raises
\* KeyError; domain and timepoint "" stand for None (both are false in `if`).
get_participant_barriers(g, participant_id, domain, timepoint) ==
    IF \/ domain # "" /\ domain \notin DOMAIN DOMAINS
       \/ timepoint # "" /\ timepoint \notin DOMAIN TIMEPOINTS
    THEN [failed |-> TRUE, results |-> {}]
    ELSE LET barriers ==
                 {b \in {t[1] : t \in g} :
                     /\ domain # "" =>
                            <<b, concerns_domain,
                              URIRef(INTERVENTION \o "domain/"
                                         \o DOMAINS[domain])>> \in g
                     /\ timepoint # "" =>
                            <<b, assessed_at_timepoint,
                              URIRef(INTERVENTION \o TIMEPOINTS[timepoint])>>
                                \in g
                     /\ StrContains(b.v, participant_id)}
         IN  [failed |-> FALSE,
              results |-> UNION {{BarrierResult(b, sol) :
                                     sol \in BarrierSolutions(g, b)} :
                                 b \in barriers}]

MaxReadCalls == 4

\* The recordings read back: one participant, two domains, a baseline of 3
\* on four barrier types and a follow-up that lowers one, keeps two and
\* raises one.
ReadDomains == {"employment", "accommodation"}

ReadBaselineScores ==
    [bt \in {"physical_capability", "psychological_capability",
             "physical_opportunity", "social_opportunity"} |-> 3]

ReadFollowUpScores ==
    [physical_capability |-> 0, psychological_capability |-> 3,
     physical_opportunity |-> 3, social_opportunity |-> 5]

\* What /api/barriers is asked: a participant with and one without
\* recordings, filters inside and outside the vocabularies.
BarrierQueryInputs ==
    {[participant_id |-> p, domain |-> f[1], timepoint |-> f[2]] :
        p \in {"P001", "P002"},
        f \in {<<"", "">>, <<"employment", "day_30">>, <<"accommodation", "">>,
               <<"hobbies", "">>, <<"", "day_45">>}}

AssessBaseline ==
    /\ ncalls < MaxReadCalls
    /\ \E domain \in ReadDomains, dt \in DateInputs :
         AddBarrierAssessment("P001", domain, ReadBaselineScores, dt)

AssessFollowUp ==
    /\ ncalls < MaxReadCalls
    /\ \E domain \in ReadDomains, dt \in DateInputs :
         AddFollowUpAssessment("P001", domain, "day_30", ReadFollowUpScores, dt)

\* analytics_dashboard: the change distribution of the loaded store.
AnalyticsDashboard ==
    /\ call' = [op |-> "analytics_dashboard",
                change_distribution |-> get_change_score_distribution(graph)]
    /\ UNCHANGED <<graph, pre, ncalls>>
    /\ UNCHANGED cycleVars

\* Variant: a read that keeps a note of the query in the store it read.
ApiGetBarriersNoting ==
    /\ \E q \in BarrierQueryInputs :
         LET r == get_participant_barriers(graph, q.participant_id, q.domain,
                                           q.timepoint)
         IN  /\ call' = [op |-> "get_participant_barriers",
                         participant_id |-> q.participant_id,
                         domain |-> q.domain, timepoint |-> q.timepoint,
                         failed |-> r.failed, results |-> r.results]
             /\ graph' = graph \cup
                    {<<URIRef(INTERVENTION \o "participant/" \o q.participant_id),
                       URIRef(INTERVENTION \o "queried"),
                       Literal(q.domain, "", "")>>}
    /\ UNCHANGED <<pre, ncalls>>
    /\ UNCHANGED cycleVars

\* api_get_barriers: the barrier rows of a participant.
ApiGetBarriers ==
    /\ \E q \in BarrierQueryInputs :
         LET r == get_participant_barriers(graph, q.participant_id, q.domain,
                                           q.timepoint)
         IN  call' = [op |-> "get_participant_barriers",
                      participant_id |-> q.participant_id,
                      domain |-> q.domain, timepoint |-> q.timepoint,
                      failed |-> r.failed, results |-> r.results]
    /\ UNCHANGED <<graph, pre, ncalls>>
    /\ UNCHANGED cycleVars

NextReads ==
    AssessBaseline \/ AssessFollowUp \/ AnalyticsDashboard \/ ApiGetBarriers

SpecReads == Init /\ [][NextReads]_vars

IsAnalyticsCall == call.op = "analytics_dashboard"

\* The change edges of the store whose value satisfies Test.
ChangeEdges(Test(_)) ==
    {t \in graph : t[2] = has_change_from_baseline /\ Test(ParseInt(t[3].v))}

\* C17: the dashboard's improved, stable and worsened counts are the numbers
\* of change edges of the store below, equal to and above zero, whatever the
\* domain of the instance carrying the edge, and they add up to the number of
\* change edges.
C17_EveryChangeEdgeCounted ==
    IsAnalyticsCall =>
        LET d == call.change_distribution
        IN  /\ d.improved_count = Cardinality(ChangeEdges(LAMBDA c : c < 0))
            /\ d.stable_count = Cardinality(ChangeEdges(LAMBDA c : c = 0))
            /\ d.worsened_count = Cardinality(ChangeEdges(LAMBDA c : c > 0))
            /\ d.improved_count + d.stable_count + d.worsened_count
                   = Cardinality(ChangeEdges(LAMBDA c : TRUE))
            /\ Len(d.changes) = Cardinality(ChangeEdges(LAMBDA c : TRUE))

C17_Witness ==
    /\ IsAnalyticsCall
    /\ call.change_distribution.improved_count = 2
    /\ call.change_distribution.stable_count = 4
    /\ call.change_distribution.worsened_count = 2
    /\ \A domain \in ReadDomains :
           \E t \in ChangeEdges(LAMBDA c : TRUE) :
               <<t[1], concerns_domain,
                 URIRef(INTERVENTION \o "domain/" \o DOMAINS[domain])>> \in graph

IsGetBarriersCall == call.op = "get_participant_barriers"

\* C18: every returned row of an instance that carries change edges reports
\* one of them as change_from_baseline, every change edge c of a returned
\* instance (c = 0 included) is reported by a row, and a row reports None
\* only for an instance with no change edge.
C18_ChangeReported ==
    (IsGetBarriersCall /\ ~call.failed) =>
        \A row \in call.results :
            LET edges == IntObjects(graph, URIRef(row.barrier_uri),
                                    has_change_from_baseline)
            IN  /\ row.change_from_baseline \subseteq edges
                /\ row.change_from_baseline = {} => edges = {}
                /\ \A c \in edges :
                       \E other \in call.results :
                           /\ other.barrier_uri = row.barrier_uri
                           /\ other.change_from_baseline = {c}

\* The store holds a barrier instance of the participant asked for.
HasBarrierInstances(participant_id) ==
    \E b \in BarrierSubjects(graph) : StrContains(b.v, participant_id)

\* C19: asked for a participant without barrier instances, or with a domain
\* or a timepoint outside the vocabularies, get_participant_barriers does not
\* fail and returns the empty list.
C19_EmptyNotFailing ==
    (/\ IsGetBarriersCall
     /\ \/ ~HasBarrierInstances(call.participant_id)
        \/ call.domain # "" /\ call.domain \notin DOMAIN DOMAINS
        \/ call.timepoint # "" /\ call.timepoint \notin DOMAIN TIMEPOINTS)
    => (~call.failed /\ call.results = {})


\* ---------------------------------------------------------------------------
\* Recordings outside the vocabularies.

\* add_barrier_assessment statement by statement, up to the KeyError of the
\* first vocabulary lookup that fails: TIMEPOINTS[timepoint] (line 133),
\* DOMAINS[domain] (line 137), then BARRIER_TYPES[barrier_type] (line 165)
\* for the barrier types in the order the dict holds them.  `adds` is what
\* Graph.add was given before the error, or by the whole call without one.
AddBarrierAssessmentUntilError(participant_id, domain, timepoint, order, barrier_scores, assessment_date) ==
    LET assessment_uri ==
            URIRef(INTERVENTION \o "assessment/" \o participant_id \o "/"
                   \o domain \o "/" \o timepoint \o "/" \o assessment_date)
        participant_uri ==
            URIRef(INTERVENTION \o "participant/" \o participant_id)
        event ==
            {<<assessment_uri, RDF_type, URIRef(BCIO \o "0000001")>>,
             <<assessment_uri, RDFS_label,
               Literal("Barrier Assessment - " \o domain, "", "en")>>,
             <<assessment_uri, URIRef(BCIO \o "has_specified_input"),
               participant_uri>>,
             <<assessment_uri, URIRef(BCIO \o "has_temporal_value"),
               Literal(assessment_date, XSD \o "dateTime", "")>>}
        unknown == {i \in DOMAIN order : order[i] \notin DOMAIN BARRIER_TYPES}
        created ==
            IF unknown = {} THEN DOMAIN order
            ELSE 1..((CHOOSE i \in unknown : \A j \in unknown : i <= j) - 1)
        instance(i) ==
            _create_barrier_instance(assessment_uri, participant_uri, order[i],
                                     barrier_scores[order[i]], domain,
                                     timepoint, assessment_date)
    IN  IF timepoint \notin DOMAIN TIMEPOINTS
        THEN [failed |-> TRUE, adds |-> event]
        ELSE IF domain \notin DOMAIN DOMAINS
        THEN [failed |-> TRUE,
              adds |-> event
                  \cup {<<assessment_uri, assessed_at_timepoint,
                          URIRef(INTERVENTION \o TIMEPOINTS[timepoint])>>}]
        ELSE [failed |-> unknown # {},
              adds |-> event
                  \cup {<<assessment_uri, assessed_at_timepoint,
                          URIRef(INTERVENTION \o TIMEPOINTS[timepoint])>>,
                        <<assessment_uri, concerns_domain,
                          URIRef(INTERVENTION \o "domain/" \o DOMAINS[domain])>>}
                  \cup UNION {instance(i).adds : i \in created}
                  \cup {<<assessment_uri, URIRef(BFO \o "0000051"),
                          instance(i).uri>> : i \in created}]

MaxRejectCalls == 2

\* Records with a domain, a timepoint or a barrier type outside the
\* vocabularies; `order` is the order of the keys of barrier_scores.
InvalidRecordInputs ==
    {r \in [domain : {"employment", "hobbies"},
            timepoint : {"baseline", "day_30", "day_45"},
            order : {<<"physical_capability">>,
                     <<"physical_capability", "willpower">>,
                     <<"willpower", "physical_capability">>}] :
        \/ r.domain \notin DOMAIN DOMAINS
        \/ r.timepoint \notin DOMAIN TIMEPOINTS
        \/ \E i \in DOMAIN r.order : r.order[i] \notin DOMAIN BARRIER_TYPES}

\* A valid baseline recording.
RecordValid ==
    /\ ncalls < MaxRejectCalls
    /\ \E dt \in DateInputs :
         AddBarrierAssessment("P001", "employment",
                              [bt \in {"physical_capability"} |-> 3], dt)

\* add_barrier_assessment, or add_follow_up_assessment (whose first
\* statement is the add_barrier_assessment call), on an invalid record: the
\* KeyError leaves the function with the store as it is at that statement.
RecordInvalid ==
    /\ ncalls < MaxRejectCalls
    /\ \E r \in InvalidRecordInputs, dt \in DateInputs,
          op \in {"add_barrier_assessment", "add_follow_up_assessment"} :
         LET barrier_scores == [bt \in {r.order[i] : i \in DOMAIN r.order} |-> 3]
             res == AddBarrierAssessmentUntilError("P001", r.domain,
                        r.timepoint, r.order, barrier_scores, dt)
         IN  /\ graph' = graph \cup res.adds
             /\ call' = [op |-> op, participant_id |-> "P001",
                         domain |-> r.domain, timepoint |-> r.timepoint,
                         barrier_scores |-> barrier_scores,
                         adds |-> res.adds, failed |-> res.failed]
    /\ pre' = graph
    /\ ncalls' = ncalls + 1
    /\ UNCHANGED cycleVars

NextRejected == RecordValid \/ RecordInvalid

SpecRejected == Init /\ [][NextRejected]_vars

\* The record of the last call is outside the vocabularies.
IsInvalidRecordCall ==
    /\ call.op \in {"add_barrier_assessment", "add_follow_up_assessment"}
    /\ \/ call.domain \notin DOMAIN DOMAINS
       \/ call.timepoint \notin DOMAIN TIMEPOINTS
       \/ \E bt \in DOMAIN call.barrier_scores : bt \notin DOMAIN BARRIER_TYPES

\* C20: a recording whose domain, timepoint or barrier type is outside the
\* vocabularies fails and leaves the store with exactly the triples it held
\* before the call.
C20_RejectedLeavesStore ==
    IsInvalidRecordCall => (call.failed /\ graph = pre)


\* C21: a read (the barrier query of a participant, the cohort analytics)
\* leaves the store's triple set and the saved file as they were, whatever
\* the store and the arguments.
C21_ReadsLeaveStore ==
    [][call'.op \in {"analytics_dashboard", "get_participant_barriers"}
           => (graph' = graph /\ artifact' = artifact)]_vars

C21_Witness ==
    /\ IsGetBarriersCall
    /\ ~call.failed
    /\ call.results # {}
    /\ \E row \in call.results : row.change_from_baseline # {}
    /\ graph # {}


\* The assessment event of the last call, had it been dated assessment_date.
CallEvent(assessment_date) ==
    URIRef(INTERVENTION \o "assessment/" \o call.participant_id \o "/"
           \o call.domain \o "/" \o call.timepoint \o "/" \o assessment_date)

\* The triples of store g whose subject is a barrier instance.
BarrierTriples(g) == {t \in g : t[1] \in BarrierSubjects(g)}

ConfirmedFromForm(form) ==
    [bct_id \in {StrReplace(key, "bct_fidelity_", "") :
                    key \in {k \in DOMAIN form : StartsWith(k, "bct_fidelity_")}}
        |-> [fidelity |-> form["bct_fidelity_" \o bct_id],
             notes |-> Get(form, "bct_notes_" \o bct_id, "")]]

\* submit_encounter of app_enhanced.py on one form: the identifier is the
\* clock's second alone.
SubmitEncounterEnhancedForm(form) ==
    LET encounter_id == "ENC_20240115_09300" \o ToString(Second(now))
        bct_instances ==
            auto_tag_encounter(encounter_id, form["protocol_id"],
                               ConfirmedFromForm(form), FormReferralData(form))
        encounter_data ==
            [encounter_uri |-> INTERVENTION \o "encounter/" \o encounter_id,
             timestamp |-> IsoFormat(now),
             delivered_to_uri |-> INTERVENTION \o "participant/"
                                      \o form["participant_id"],
             mode_of_delivery |-> Get(form, "mode_of_delivery", "face_to_face"),
             duration_minutes |-> Get(form, "duration_minutes", "60"),
             protocol_id |-> form["protocol_id"],
             practitioner_id |-> Get(form, "practitioner_id", "CLW001"),
             bcts |-> bct_instances,
             encounter_notes |-> Get(form, "encounter_notes", "")]
        l == load_graph(artifact)
        store == l.store \cup add_encounter_instance(encounter_data).adds
    IN  /\ graph' = store
        /\ artifact' = save_graph(artifact, store)
        /\ pre' = l.store
        /\ call' = [op |-> "submit_encounter", form |-> form,
                    encounter_id |-> encounter_id,
                    protocol_id |-> form["protocol_id"],
                    bct_instances |-> bct_instances]

MaxEncounters == 3

\* The forms submitted one after the other: two participants, two protocols,
\* two practitioners.
EncounterForms ==
    {("participant_id" :> "P001") @@ ("practitioner_id" :> "CLW001")
         @@ ("protocol_id" :> "housing_action_planning")
         @@ ("bct_fidelity_BCT_1.1" :> "delivered"),
     ("participant_id" :> "P001") @@ ("practitioner_id" :> "CLW002")
         @@ ("protocol_id" :> "substance_use_brief_intervention"),
     ("participant_id" :> "P002") @@ ("practitioner_id" :> "CLW001")
         @@ ("protocol_id" :> "housing_action_planning")}

\* A submission to app.py; `issued` keeps the identifiers assigned so far.
SubmitEncounterApp ==
    /\ ncalls < MaxEncounters
    /\ \E form \in EncounterForms : SubmitEncounterForm(form)
    /\ issued' = Append(issued, call'.encounter_id)
    /\ ncalls' = ncalls + 1
    /\ now' = now + 1
    /\ UNCHANGED <<handler, done, ncycles>>

\* A submission to app_enhanced.py.
SubmitEncounterEnhanced ==
    /\ ncalls < MaxEncounters
    /\ \E form \in EncounterForms : SubmitEncounterEnhancedForm(form)
    /\ issued' = Append(issued, call'.encounter_id)
    /\ ncalls' = ncalls + 1
    /\ now' = now + 1
    /\ UNCHANGED <<handler, done, ncycles>>

NextEncounters == SubmitEncounterApp \/ SubmitEncounterEnhanced

SpecEncounters == Init /\ [][NextEncounters]_vars

\* The encounter nodes of the store.
EncounterNodes ==
    {t[1] : t \in {u \in graph : /\ u[2] = RDF_type
                                 /\ u[3] = URIRef(BCIO \o "000001")}}

\* C23: every encounter node of the store references exactly one
\* participant, exactly one protocol and exactly one practitioner.
C23_OneParticipantProtocolPractitioner ==
    \A e \in EncounterNodes :
        /\ Cardinality(Objects(graph, e,
               URIRef(BCIO \o "has_specified_input"))) = 1
        /\ Cardinality(Objects(graph, e, URIRef(BFO \o "0000055"))) = 1
        /\ Cardinality(Objects(graph, e,
               URIRef(BCIO \o "has_specified_agent"))) = 1

\* C24: two distinct submissions are never assigned the same encounter
\* identifier.
C24_DistinctEncounterIds ==
    \A i, j \in DOMAIN issued : i # j => issued[i] # issued[j]


\* ---------------------------------------------------------------------------
\* A trajectory: one (participant, domain, barrier type) recorded at baseline
\* and at the follow-up timepoints, re-recordings included.

MaxTrajectoryCalls == 3

TrajectoryTimepoints == {"day_30", "day_90", "day_180"}

TrajectoryBaselineScores == {5, 6}

TrajectoryFollowUpScores == {2, 7}

RecordTrajectoryBaseline ==
    /\ ncalls < MaxTrajectoryCalls
    /\ \E s \in TrajectoryBaselineScores, dt \in DateInputs :
         AddBarrierAssessment("P001", "employment",
                              [bt \in {"physical_capability"} |-> s], dt)

RecordTrajectoryFollowUp ==
    /\ ncalls < MaxTrajectoryCalls
    /\ \E s \in TrajectoryFollowUpScores, tp \in TrajectoryTimepoints,
          dt \in DateInputs :
         AddFollowUpAssessment("P001", "employment", tp,
                               [bt \in {"physical_capability"} |-> s], dt)

NextTrajectory == RecordTrajectoryBaseline \/ RecordTrajectoryFollowUp

SpecTrajectory == Init /\ [][NextTrajectory]_vars

\* The triples of store g on the instances of the last call's (participant,
\* domain) for a barrier type at a timepoint.
InstanceTriples(g, bt, timepoint) ==
    {t \in g : t[1] \in CallInstances(g, bt, timepoint)}

\* C25: a follow-up recorded at any of the timepoints, for a barrier type
\* whose baseline holds the one score b, writes the change f - b of its own
\* score f, whatever earlier follow-ups recorded; and it leaves the triples of
\* the follow-up instances of the other timepoints as they were.
C25_RelativeToBaseline ==
    IsFollowUpCall =>
        \A bt \in DOMAIN call.barrier_scores :
            /\ \A b \in BaselineScoresBefore(bt) :
                   BaselineScoresBefore(bt) = {b}
                       => ChangesWritten(bt) = {call.barrier_scores[bt] - b}
            /\ \A tp \in TrajectoryTimepoints \ {call.timepoint} :
                   InstanceTriples(graph, bt, tp) = InstanceTriples(pre, bt, tp)

\* A follow-up at day_90 after a baseline of 5 and a day_30 follow-up of 7.
C25_Witness ==
    /\ IsFollowUpCall
    /\ call.timepoint = "day_90"
    /\ call.barrier_scores["physical_capability"] = 2
    /\ BaselineScoresBefore("physical_capability") = {5}
    /\ UNION {IntObjects(pre, s, has_severity_score) :
                 s \in CallInstances(pre, "physical_capability", "day_30")} = {7}
    /\ ChangesWritten("physical_capability") = {0 - 3}


\* ---------------------------------------------------------------------------
\* Barrier queries on a store with several participants.

MaxCohortCalls == 2

\* Two participants, the identifier of one a prefix of the other's.
CohortParticipants == {"P100", "P1000"}

RecordCohortBaseline ==
    /\ ncalls < MaxCohortCalls
    /\ \E participant_id \in CohortParticipants, domain \in ReadDomains,
          dt \in DateInputs :
         AddBarrierAssessment(participant_id, domain,
                              [bt \in {"physical_capability"} |-> 3], dt)

\* api_get_barriers for one of the participants.
QueryCohortBarriers ==
    /\ \E participant_id \in CohortParticipants,
          domain \in {"", "employment"}, timepoint \in {"", "baseline"} :
         LET r == get_participant_barriers(graph, participant_id, domain,
                                           timepoint)
         IN  call' = [op |-> "get_participant_barriers",
                      participant_id |-> participant_id,
                      domain |-> domain, timepoint |-> timepoint,
                      failed |-> r.failed, results |-> r.results]
    /\ UNCHANGED <<graph, pre, ncalls>>
    /\ UNCHANGED cycleVars

NextCohort == RecordCohortBaseline \/ QueryCohortBarriers

SpecCohort == Init /\ [][NextCohort]_vars

\* The barrier instances of the store that inhere in the participant asked
\* for and match the filters given.
InstancesAskedFor ==
    {b \in BarrierSubjects(graph) :
        /\ <<b, URIRef(BFO \o "0000052"),
             URIRef(INTERVENTION \o "participant/" \o call.participant_id)>>
               \in graph
        /\ call.domain # "" =>
               <<b, concerns_domain,
                 URIRef(INTERVENTION \o "domain/" \o DOMAINS[call.domain])>>
                   \in graph
        /\ call.timepoint # "" =>
               <<b, assessed_at_timepoint,
                 URIRef(INTERVENTION \o TIMEPOINTS[call.timepoint])>> \in graph}

\* C26: get_participant_barriers returns records for exactly the barrier
\* instances that inhere in the participant asked for and match the filters:
\* no instance of another participant is returned.
C26_OnlyOwnInstances ==
    (IsGetBarriersCall /\ ~call.failed) =>
        {row.barrier_uri : row \in call.results}
            = {b.v : b \in InstancesAskedFor}


\* C27: after any sequence of baseline recordings, a second baseline with a
\* different score included, there is exactly one baseline instance of the
\* recorded (participant, domain, barrier type) and it carries exactly one
\* severity score.
C27_SingleBaselineScore ==
    IsBaselineCall =>
        \A bt \in DOMAIN call.barrier_scores :
            /\ Cardinality(CallInstances(graph, bt, "baseline")) = 1
            /\ \A s \in CallInstances(graph, bt, "baseline") :
                   Cardinality(Objects(graph, s, has_severity_score)) = 1


\* C28: every change edge on a barrier instance equals the instance's
\* severity score minus the severity score of the baseline instance it is
\* linked to, and the instance's outcome class is the one of that
\* difference's sign, re-recordings included.
C28_ChangeMatchesScores ==
    \A s \in BarrierSubjects(graph) :
        \A c \in IntObjects(graph, s, has_change_from_baseline) :
            /\ \A f \in IntObjects(graph, s, has_severity_score) :
                   \A base \in Objects(graph, s, is_reassessment_of) :
                       \A b \in IntObjects(graph, base, has_severity_score) :
                           c = f - b
            /\ Outcomes(graph, s) = {ClassifyOutcome(c)}


\* The barrier instances of store g recorded at a follow-up timepoint.
FollowUpSubjects(g) ==
    {s \in BarrierSubjects(g) :
        \E tp \in DOMAIN TIMEPOINTS \ {"baseline"} :
            <<s, assessed_at_timepoint, URIRef(INTERVENTION \o TIMEPOINTS[tp])>>
                \in g}

\* C29: recording a baseline writes no triple whose subject is a follow-up
\* instance: a follow-up instance recorded before its baseline has, after
\* the baseline is recorded, the change edges and outcome classes it had
\* before (none, when its own recording found no baseline).
C29_BaselineLeavesFollowUps ==
    IsBaselineCall =>
        /\ \A t \in graph \ pre : t[1] \notin FollowUpSubjects(graph)
        /\ \A s \in FollowUpSubjects(graph) :
               /\ Objects(graph, s, has_change_from_baseline)
                      = Objects(pre, s, has_change_from_baseline)
               /\ Outcomes(graph, s) = Outcomes(pre, s)

\* A baseline recorded after a follow-up that found none.
C29_Witness ==
    /\ IsBaselineCall
    /\ graph # pre
    /\ BaselineScoresBefore("physical_capability") = {}
    /\ \E s \in FollowUpSubjects(pre) :
           /\ Objects(graph, s, has_severity_score) # {}
           /\ Objects(graph, s, has_change_from_baseline) = {}
           /\ Outcomes(graph, s) = {}


\* ---------------------------------------------------------------------------
\* The two derivations of the barrier identifier.

MaxIdentifierCalls == 2

\* Participant identifiers as callers pass them: the applications' P<n>, and
\* one qualified by a site.
IdentifierParticipants == {"P001", "P1000", "site1/P001"}

RecordIdentifierBaseline ==
    /\ ncalls < MaxIdentifierCalls
    /\ \E participant_id \in IdentifierParticipants, domain \in ReadDomains,
          dt \in DateInputs :
         AddBarrierAssessment(participant_id, domain,
                              [bt \in {"physical_capability"} |-> 5], dt)

RecordIdentifierFollowUp ==
    /\ ncalls < MaxIdentifierCalls
    /\ \E participant_id \in IdentifierParticipants, domain \in ReadDomains,
          tp \in TrajectoryTimepoints, dt \in DateInputs :
         AddFollowUpAssessment(participant_id, domain, tp,
                               [bt \in {"physical_capability"} |-> 2], dt)

NextIdentifiers == RecordIdentifierBaseline \/ RecordIdentifierFollowUp

SpecIdentifiers == Init /\ [][NextIdentifiers]_vars

\* C30: the reassessment and change edges a follow-up writes are on the
\* barrier instance _create_barrier_instance created for the same
\* participant identifier, domain, barrier type and timepoint, the one that
\* holds the severity score.
C30_EdgesOnScoredInstance ==
    IsFollowUpCall =>
        \A t \in call.adds :
            t[2] \in {is_reassessment_of, has_change_from_baseline}
                => /\ Objects(call.adds, t[1], has_severity_score) # {}
                   /\ t[1] \in BarrierSubjects(call.adds)

=============================================================================
